---- MODULE Spec2Model ----
(***************************************************************************)
(* A state-machine model of the 6502 emulator: the processor state and the *)
(* 64 KB memory kept by the use6502Emulator hook, the addressing-mode      *)
(* resolver, the instruction table with its effect functions, and the      *)
(* step / resetCPU / loadProgram operations.                               *)
(*                                                                         *)
(* Memory is a Uint8Array(65536) that starts zero-filled.  It is kept here *)
(* as the function from the addresses holding a non-zero byte to that      *)
(* byte; every other cell reads 0.  The representation is canonical, so    *)
(* equality of two memories is equality of their contents.                 *)
(***************************************************************************)
EXTENDS Integers, Sequences, FiniteSets, TLC

VARIABLES cpu, memory, last, before, app

vars == <<cpu, memory, last, before, app>>

----------------------------------------------------------------------------
(* Program constants *)

MEMORY_SIZE == 65536
DEFAULT_PROGRAM_LOAD_ADDRESS == 512
RESET_VECTOR_ADDRESS == 65532
STACK_BASE == 256

FlagC == 1
FlagZ == 2
FlagI == 4
FlagD == 8
FlagB == 16
FlagU == 32
FlagV == 64
FlagN == 128

Byte == 0..255
Word == 0..(MEMORY_SIZE - 1)

----------------------------------------------------------------------------
(* JavaScript's integer operators, on two's-complement integers.  \div and *)
(* % round towards minus infinity, so a negative operand behaves as its    *)
(* sign-extended bit pattern (~f is -f-1).                                 *)

RECURSIVE BitAnd(_, _)
BitAnd(a, b) ==
    IF a = 0 \/ b = 0 THEN 0
    ELSE IF a = -1 THEN b
    ELSE IF b = -1 THEN a
    ELSE (a % 2) * (b % 2) + 2 * BitAnd(a \div 2, b \div 2)

RECURSIVE BitOr(_, _)
BitOr(a, b) ==
    IF a = 0 THEN b
    ELSE IF b = 0 THEN a
    ELSE IF a = -1 \/ b = -1 THEN -1
    ELSE (IF a % 2 = 1 \/ b % 2 = 1 THEN 1 ELSE 0) + 2 * BitOr(a \div 2, b \div 2)

RECURSIVE BitXor(_, _)
BitXor(a, b) ==
    IF a = 0 THEN b
    ELSE IF b = 0 THEN a
    ELSE IF a = -1 THEN -b - 1
    ELSE IF b = -1 THEN -a - 1
    ELSE (IF a % 2 = b % 2 THEN 0 ELSE 1) + 2 * BitXor(a \div 2, b \div 2)

BitNot(a) == -a - 1

Shl(a, n) == a * (2 ^ n)
Shr(a, n) == a \div (2 ^ n)

----------------------------------------------------------------------------
(* Uint8Array: a read outside 0..65535 yields undefined, a write outside   *)
(* is ignored, and a stored value is reduced modulo 256.                   *)

EmptyMemory == [a \in {} |-> 0]

IsIndex(a) == a \in Word

MemGet(m, a) == IF a \in DOMAIN m THEN m[a] ELSE 0

MemSet(m, a, v) ==
    IF ~IsIndex(a) THEN m
    ELSE IF v % 256 = 0 THEN [x \in DOMAIN m \ {a} |-> m[x]]
    ELSE [x \in DOMAIN m \cup {a} |-> IF x = a THEN v % 256 ELSE m[x]]

----------------------------------------------------------------------------
(* Addressing modes.  Each takes the processor state (PC already past the  *)
(* opcode) and the memory, and yields the operand address, the page-cross  *)
(* report and the processor state with PC advanced past the operand.       *)

fetchByte(c, m) ==
    [byte |-> MemGet(m, c.PC), cpu |-> [c EXCEPT !.PC = BitAnd(c.PC + 1, 65535)]]

fetchWord(c, m) ==
    LET lo == fetchByte(c, m)
        hi == fetchByte(lo.cpu, m)
    IN  [word |-> BitOr(Shl(hi.byte, 8), lo.byte), cpu |-> hi.cpu]

IMM(c, m) ==
    [address |-> c.PC, pageCrossed |-> FALSE,
     cpu |-> [c EXCEPT !.PC = BitAnd(c.PC + 1, 65535)]]

ZP(c, m) ==
    LET f == fetchByte(c, m)
    IN  [address |-> f.byte, pageCrossed |-> FALSE, cpu |-> f.cpu]

ZPX(c, m) ==
    LET f == fetchByte(c, m)
    IN  [address |-> BitAnd(f.byte + c.X, 255), pageCrossed |-> FALSE, cpu |-> f.cpu]

ZPY(c, m) ==
    LET f == fetchByte(c, m)
    IN  [address |-> BitAnd(f.byte + c.Y, 255), pageCrossed |-> FALSE, cpu |-> f.cpu]

ABS(c, m) ==
    LET f == fetchWord(c, m)
    IN  [address |-> f.word, pageCrossed |-> FALSE, cpu |-> f.cpu]

ABSX(c, m) ==
    LET f == fetchWord(c, m)
        baseAddress == f.word
        effectiveAddress == BitAnd(baseAddress + c.X, 65535)
    IN  [address |-> effectiveAddress,
         pageCrossed |-> BitAnd(baseAddress, 65280) # BitAnd(effectiveAddress, 65280),
         cpu |-> f.cpu]

ABSY(c, m) ==
    LET f == fetchWord(c, m)
        baseAddress == f.word
        effectiveAddress == BitAnd(baseAddress + c.Y, 65535)
    IN  [address |-> effectiveAddress,
         pageCrossed |-> BitAnd(baseAddress, 65280) # BitAnd(effectiveAddress, 65280),
         cpu |-> f.cpu]

IND_NextPage(c, m) ==
    LET f == fetchWord(c, m)
        pointer == f.word
    IN  [address |-> BitOr(MemGet(m, pointer), Shl(MemGet(m, pointer + 1), 8)),
         pageCrossed |-> FALSE, cpu |-> f.cpu]

IND(c, m) ==
    LET f == fetchWord(c, m)
        pointer == f.word
        effectiveAddress ==
            IF BitAnd(pointer, 255) = 255
            THEN BitOr(MemGet(m, pointer), Shl(MemGet(m, BitAnd(pointer, 65280)), 8))
            ELSE BitOr(MemGet(m, pointer), Shl(MemGet(m, pointer + 1), 8))
    IN  [address |-> effectiveAddress, pageCrossed |-> FALSE, cpu |-> f.cpu]

IZX_HighByteFromNextPage(c, m) ==
    LET f == fetchByte(c, m)
        zpAddress == BitAnd(f.byte + c.X, 255)
        lowByte == MemGet(m, zpAddress)
        highByte == MemGet(m, zpAddress + 1)
    IN  [address |-> BitOr(Shl(highByte, 8), lowByte), pageCrossed |-> FALSE,
         cpu |-> f.cpu]

IZX(c, m) ==
    LET f == fetchByte(c, m)
        zpAddress == BitAnd(f.byte + c.X, 255)
        lowByte == MemGet(m, zpAddress)
        highByte == MemGet(m, BitAnd(zpAddress + 1, 255))
    IN  [address |-> BitOr(Shl(highByte, 8), lowByte), pageCrossed |-> FALSE,
         cpu |-> f.cpu]

IZY(c, m) ==
    LET f == fetchByte(c, m)
        zpAddress == f.byte
        baseAddress == BitOr(MemGet(m, zpAddress),
                             Shl(MemGet(m, BitAnd(zpAddress + 1, 255)), 8))
        effectiveAddress == BitAnd(baseAddress + c.Y, 65535)
    IN  [address |-> effectiveAddress,
         pageCrossed |-> BitAnd(baseAddress, 65280) # BitAnd(effectiveAddress, 65280),
         cpu |-> f.cpu]

(* REL yields the operand as a signed offset in its address field. *)
REL(c, m) ==
    LET f == fetchByte(c, m)
        offset == f.byte
    IN  [address |-> IF offset > 127 THEN offset - 256 ELSE offset,
         pageCrossed |-> FALSE, cpu |-> f.cpu]

addressingMode(mode, c, m) ==
    CASE mode = "IMM"  -> IMM(c, m)
      [] mode = "ZP"   -> ZP(c, m)
      [] mode = "ZPX"  -> ZPX(c, m)
      [] mode = "ZPY"  -> ZPY(c, m)
      [] mode = "ABS"  -> ABS(c, m)
      [] mode = "ABSX" -> ABSX(c, m)
      [] mode = "ABSY" -> ABSY(c, m)
      [] mode = "IND"  -> IND(c, m)
      [] mode = "IZX"  -> IZX(c, m)
      [] mode = "IZY"  -> IZY(c, m)
      [] mode = "REL"  -> REL(c, m)

----------------------------------------------------------------------------
(* Flag and stack helpers.  An effect function yields the processor state  *)
(* and the memory it leaves.                                               *)

Effect(c, m) == [cpu |-> c, memory |-> m]

setZN_NegativeKept(c, value) ==
    [c EXCEPT !.P = IF value = 0 THEN BitOr(c.P, FlagZ) ELSE BitAnd(c.P, BitNot(FlagZ))]
setZN(c, value) ==
    LET p1 == IF value = 0 THEN BitOr(c.P, FlagZ) ELSE BitAnd(c.P, BitNot(FlagZ))
        p2 == IF BitAnd(value, 128) # 0 THEN BitOr(p1, FlagN) ELSE BitAnd(p1, BitNot(FlagN))
    IN  [c EXCEPT !.P = p2]

setZNC(c, value, carry) ==
    LET c1 == setZN(c, value)
    IN  [c1 EXCEPT !.P = IF carry THEN BitOr(c1.P, FlagC) ELSE BitAnd(c1.P, BitNot(FlagC))]

pushByte_PreDecrement(c, m, value) ==
    Effect([c EXCEPT !.SP = BitAnd(c.SP - 1, 255)],
           MemSet(m, STACK_BASE + BitAnd(c.SP - 1, 255), value))
pushByte_HaltsOnWrap(c, m, value) ==
    Effect([c EXCEPT !.SP = BitAnd(c.SP - 1, 255), !.halted = c.halted \/ c.SP = 0],
           MemSet(m, STACK_BASE + c.SP, value))
pushByte(c, m, value) ==
    Effect([c EXCEPT !.SP = BitAnd(c.SP - 1, 255)], MemSet(m, STACK_BASE + c.SP, value))

pullByte_Unmasked(c, m) ==
    LET sp == c.SP + 1
    IN  [byte |-> MemGet(m, STACK_BASE + sp), cpu |-> [c EXCEPT !.SP = sp]]

pullByte(c, m) ==
    LET sp == BitAnd(c.SP + 1, 255)
    IN  [byte |-> MemGet(m, STACK_BASE + sp), cpu |-> [c EXCEPT !.SP = sp]]

pushWord(c, m, value) ==
    LET hi == pushByte(c, m, BitAnd(Shr(value, 8), 255))
    IN  pushByte(hi.cpu, hi.memory, BitAnd(value, 255))

pullWord(c, m) ==
    LET lowByte == pullByte(c, m)
        highByte == pullByte(lowByte.cpu, m)
    IN  [word |-> BitOr(Shl(highByte.byte, 8), lowByte.byte), cpu |-> highByte.cpu]

----------------------------------------------------------------------------
(* Effect functions *)

LDA(c, m, address) ==
    LET v == MemGet(m, address) IN Effect(setZN([c EXCEPT !.A = v], v), m)
LDX(c, m, address) ==
    LET v == MemGet(m, address) IN Effect(setZN([c EXCEPT !.X = v], v), m)
LDY(c, m, address) ==
    LET v == MemGet(m, address) IN Effect(setZN([c EXCEPT !.Y = v], v), m)

STA(c, m, address) == Effect(c, MemSet(m, address, c.A))
STX(c, m, address) == Effect(c, MemSet(m, address, c.X))
STY(c, m, address) == Effect(c, MemSet(m, address, c.Y))

ADC_OverflowFromCarry(c, m, address) ==
    LET value == MemGet(m, address)
        carry == IF BitAnd(c.P, FlagC) # 0 THEN 1 ELSE 0
        temp == c.A + value + carry
        p1 == IF temp > 255 THEN BitOr(c.P, FlagV) ELSE BitAnd(c.P, BitNot(FlagV))
        a == BitAnd(temp, 255)
    IN  Effect(setZNC([c EXCEPT !.P = p1, !.A = a], a, temp > 255), m)

ADC_DecimalAdjusted(c, m, address) ==
    LET value == MemGet(m, address)
        carry == IF BitAnd(c.P, FlagC) # 0 THEN 1 ELSE 0
        binary == c.A + value + carry
        temp == IF BitAnd(c.P, FlagD) # 0 /\ (c.A % 16) + (value % 16) + carry > 9
                THEN binary + 6 ELSE binary
        c1 == IF BitAnd(BitXor(c.A, value), 128) = 0 /\ BitAnd(BitXor(c.A, temp), 128) # 0
              THEN [c EXCEPT !.P = BitOr(c.P, FlagV)]
              ELSE [c EXCEPT !.P = BitAnd(c.P, BitNot(FlagV))]
        a == BitAnd(temp, 255)
    IN  Effect(setZNC([c1 EXCEPT !.A = a], a, temp > 255), m)
ADC(c, m, address) ==
    LET value == MemGet(m, address)
        carry == IF BitAnd(c.P, FlagC) # 0 THEN 1 ELSE 0
        temp == c.A + value + carry
        overflow == BitAnd(BitXor(c.A, value), 128) = 0
                    /\ BitAnd(BitXor(c.A, temp), 128) # 0
        p1 == IF overflow THEN BitOr(c.P, FlagV) ELSE BitAnd(c.P, BitNot(FlagV))
        a == BitAnd(temp, 255)
    IN  Effect(setZNC([c EXCEPT !.P = p1, !.A = a], a, temp > 255), m)

SBC_BorrowIgnored(c, m, address) ==
    LET value == BitXor(MemGet(m, address), 255)
        temp == c.A + value + 1
        overflow == BitAnd(BitXor(c.A, value), 128) = 0
                    /\ BitAnd(BitXor(c.A, temp), 128) # 0
        p1 == IF overflow THEN BitOr(c.P, FlagV) ELSE BitAnd(c.P, BitNot(FlagV))
        a == BitAnd(temp, 255)
    IN  Effect(setZNC([c EXCEPT !.P = p1, !.A = a], a, temp > 255), m)

SBC(c, m, address) ==
    LET value == BitXor(MemGet(m, address), 255)
        carry == IF BitAnd(c.P, FlagC) # 0 THEN 1 ELSE 0
        temp == c.A + value + carry
        overflow == BitAnd(BitXor(c.A, value), 128) = 0
                    /\ BitAnd(BitXor(c.A, temp), 128) # 0
        p1 == IF overflow THEN BitOr(c.P, FlagV) ELSE BitAnd(c.P, BitNot(FlagV))
        a == BitAnd(temp, 255)
    IN  Effect(setZNC([c EXCEPT !.P = p1, !.A = a], a, temp > 255), m)

genericBranch_NoPageCycle(c, m, relativeOffsetAddress, condition) ==
    IF condition
    THEN LET newPC == IF IsIndex(relativeOffsetAddress)
                      THEN BitAnd(c.PC + MemGet(m, relativeOffsetAddress), 65535)
                      ELSE 0
         IN  Effect([c EXCEPT !.PC = newPC, !.cycles = c.cycles + 1], m)
    ELSE Effect(c, m)

(* The branch reads memory at the value REL returned.  That value is the   *)
(* signed offset, so for 0..127 the byte read is a zero-page cell, and for *)
(* -128..-1 the read is outside the array: undefined, PC + undefined is    *)
(* NaN, and NaN & 0xFFFF is 0.                                             *)
genericBranch(c, m, relativeOffsetAddress, condition) ==
    IF condition
    THEN LET oldPC == c.PC
             newPC == IF IsIndex(relativeOffsetAddress)
                      THEN BitAnd(c.PC + MemGet(m, relativeOffsetAddress), 65535)
                      ELSE 0
             crossed == BitAnd(oldPC, 65280) # BitAnd(newPC, 65280)
         IN  Effect([c EXCEPT !.PC = newPC,
                              !.cycles = c.cycles + 1 + (IF crossed THEN 1 ELSE 0)], m)
    ELSE Effect(c, m)

BEQ(c, m, address) == genericBranch(c, m, address, BitAnd(c.P, FlagZ) # 0)
BNE(c, m, address) == genericBranch(c, m, address, BitAnd(c.P, FlagZ) = 0)
BCS(c, m, address) == genericBranch(c, m, address, BitAnd(c.P, FlagC) # 0)
BCC(c, m, address) == genericBranch(c, m, address, BitAnd(c.P, FlagC) = 0)
BMI(c, m, address) == genericBranch(c, m, address, BitAnd(c.P, FlagN) # 0)
BPL(c, m, address) == genericBranch(c, m, address, BitAnd(c.P, FlagN) = 0)
BVS(c, m, address) == genericBranch(c, m, address, BitAnd(c.P, FlagV) # 0)
BVC(c, m, address) == genericBranch(c, m, address, BitAnd(c.P, FlagV) = 0)

JMP(c, m, address) == Effect([c EXCEPT !.PC = address], m)

JSR_PushesNextAddress(c, m, address) ==
    LET pushed == pushWord(c, m, c.PC)
    IN  Effect([pushed.cpu EXCEPT !.PC = address], pushed.memory)

JSR(c, m, address) ==
    LET pushed == pushWord(c, m, BitAnd(c.PC - 1, 65535))
    IN  Effect([pushed.cpu EXCEPT !.PC = address], pushed.memory)

RTS(c, m, address) ==
    LET pulled == pullWord(c, m)
    IN  Effect([pulled.cpu EXCEPT !.PC = BitAnd(pulled.word + 1, 65535)], m)

RTI_ReturnAdjusted(c, m, address) ==
    LET status == pullByte(c, m)
        c1 == [status.cpu EXCEPT !.P = BitOr(BitAnd(status.byte, BitNot(FlagB)), FlagU)]
        pulled == pullWord(c1, m)
    IN  Effect([pulled.cpu EXCEPT !.PC = BitAnd(pulled.word + 1, 65535)], m)
RTI(c, m, address) ==
    LET status == pullByte(c, m)
        c1 == [status.cpu EXCEPT !.P = BitOr(BitAnd(status.byte, BitNot(FlagB)), FlagU)]
        pulled == pullWord(c1, m)
    IN  Effect([pulled.cpu EXCEPT !.PC = pulled.word], m)

INC(c, m, address) ==
    LET value == BitAnd(MemGet(m, address) + 1, 255)
    IN  Effect(setZN(c, value), MemSet(m, address, value))
INX_Unmasked(c, m, address) ==
    LET v == c.X + 1 IN Effect(setZN([c EXCEPT !.X = v], v), m)
INX(c, m, address) ==
    LET v == BitAnd(c.X + 1, 255) IN Effect(setZN([c EXCEPT !.X = v], v), m)
INY(c, m, address) ==
    LET v == BitAnd(c.Y + 1, 255) IN Effect(setZN([c EXCEPT !.Y = v], v), m)
DEC(c, m, address) ==
    LET value == BitAnd(MemGet(m, address) - 1, 255)
    IN  Effect(setZN(c, value), MemSet(m, address, value))
DEX(c, m, address) ==
    LET v == BitAnd(c.X - 1, 255) IN Effect(setZN([c EXCEPT !.X = v], v), m)
DEY(c, m, address) ==
    LET v == BitAnd(c.Y - 1, 255) IN Effect(setZN([c EXCEPT !.Y = v], v), m)

CMP(c, m, address) ==
    LET value == MemGet(m, address)
        result == BitAnd(c.A - value, 255)
        c1 == setZN(c, result)
    IN  Effect([c1 EXCEPT !.P = IF c.A >= value THEN BitOr(c1.P, FlagC)
                                                ELSE BitAnd(c1.P, BitNot(FlagC))], m)
CPX(c, m, address) ==
    LET value == MemGet(m, address)
        result == BitAnd(c.X - value, 255)
        c1 == setZN(c, result)
    IN  Effect([c1 EXCEPT !.P = IF c.X >= value THEN BitOr(c1.P, FlagC)
                                                ELSE BitAnd(c1.P, BitNot(FlagC))], m)
CPY_CarryWhenGreater(c, m, address) ==
    LET value == MemGet(m, address)
        result == BitAnd(c.Y - value, 255)
        c1 == setZN(c, result)
    IN  Effect([c1 EXCEPT !.P = IF c.Y > value THEN BitOr(c1.P, FlagC)
                                               ELSE BitAnd(c1.P, BitNot(FlagC))], m)
CPY(c, m, address) ==
    LET value == MemGet(m, address)
        result == BitAnd(c.Y - value, 255)
        c1 == setZN(c, result)
    IN  Effect([c1 EXCEPT !.P = IF c.Y >= value THEN BitOr(c1.P, FlagC)
                                                ELSE BitAnd(c1.P, BitNot(FlagC))], m)

AND(c, m, address) ==
    LET v == BitAnd(c.A, MemGet(m, address)) IN Effect(setZN([c EXCEPT !.A = v], v), m)
ORA(c, m, address) ==
    LET v == BitOr(c.A, MemGet(m, address)) IN Effect(setZN([c EXCEPT !.A = v], v), m)
EOR(c, m, address) ==
    LET v == BitXor(c.A, MemGet(m, address)) IN Effect(setZN([c EXCEPT !.A = v], v), m)

BIT_FlagsFromResult(c, m, address) ==
    LET value == BitAnd(MemGet(m, address), c.A)
        p1 == IF value = 0 THEN BitOr(c.P, FlagZ) ELSE BitAnd(c.P, BitNot(FlagZ))
        p2 == IF BitAnd(value, FlagN) # 0 THEN BitOr(p1, FlagN) ELSE BitAnd(p1, BitNot(FlagN))
        p3 == IF BitAnd(value, FlagV) # 0 THEN BitOr(p2, FlagV) ELSE BitAnd(p2, BitNot(FlagV))
    IN  Effect([c EXCEPT !.P = p3], m)
BIT(c, m, address) ==
    LET value == MemGet(m, address)
        p1 == IF BitAnd(value, c.A) = 0 THEN BitOr(c.P, FlagZ) ELSE BitAnd(c.P, BitNot(FlagZ))
        p2 == IF BitAnd(value, FlagN) # 0 THEN BitOr(p1, FlagN) ELSE BitAnd(p1, BitNot(FlagN))
        p3 == IF BitAnd(value, FlagV) # 0 THEN BitOr(p2, FlagV) ELSE BitAnd(p2, BitNot(FlagV))
    IN  Effect([c EXCEPT !.P = p3], m)

ASL_A(c, m, address) ==
    LET carry == BitAnd(c.A, 128) # 0
        a == BitAnd(Shl(c.A, 1), 255)
    IN  Effect(setZNC([c EXCEPT !.A = a], a, carry), m)
ASL_M(c, m, address) ==
    LET value == MemGet(m, address)
        carry == BitAnd(value, 128) # 0
        m1 == MemSet(m, address, BitAnd(Shl(value, 1), 255))
    IN  Effect(setZNC(c, MemGet(m1, address), carry), m1)
LSR_A(c, m, address) ==
    LET carry == BitAnd(c.A, 1) # 0
        a == Shr(c.A, 1)
    IN  Effect(setZNC([c EXCEPT !.A = a], a, carry), m)
LSR_M(c, m, address) ==
    LET value == MemGet(m, address)
        carry == BitAnd(value, 1) # 0
        m1 == MemSet(m, address, Shr(value, 1))
    IN  Effect(setZNC(c, MemGet(m1, address), carry), m1)
ROL_A(c, m, address) ==
    LET oldCarry == IF BitAnd(c.P, FlagC) # 0 THEN 1 ELSE 0
        newCarry == BitAnd(c.A, 128) # 0
        a == BitAnd(BitOr(Shl(c.A, 1), oldCarry), 255)
    IN  Effect(setZNC([c EXCEPT !.A = a], a, newCarry), m)
ROL_M(c, m, address) ==
    LET value == MemGet(m, address)
        oldCarry == IF BitAnd(c.P, FlagC) # 0 THEN 1 ELSE 0
        newCarry == BitAnd(value, 128) # 0
        m1 == MemSet(m, address, BitAnd(BitOr(Shl(value, 1), oldCarry), 255))
    IN  Effect(setZNC(c, MemGet(m1, address), newCarry), m1)
ROR_A(c, m, address) ==
    LET oldCarry == IF BitAnd(c.P, FlagC) # 0 THEN 128 ELSE 0
        newCarry == BitAnd(c.A, 1) # 0
        a == BitOr(Shr(c.A, 1), oldCarry)
    IN  Effect(setZNC([c EXCEPT !.A = a], a, newCarry), m)
ROR_M_CarryDropped(c, m, address) ==
    LET value == MemGet(m, address)
        newCarry == BitAnd(value, 1) # 0
        m1 == MemSet(m, address, Shr(value, 1))
    IN  Effect(setZNC(c, MemGet(m1, address), newCarry), m1)
ROR_M(c, m, address) ==
    LET value == MemGet(m, address)
        oldCarry == IF BitAnd(c.P, FlagC) # 0 THEN 128 ELSE 0
        newCarry == BitAnd(value, 1) # 0
        m1 == MemSet(m, address, BitOr(Shr(value, 1), oldCarry))
    IN  Effect(setZNC(c, MemGet(m1, address), newCarry), m1)

PHA(c, m, address) == pushByte(c, m, c.A)
PHP_LiveStatus(c, m, address) == pushByte(c, m, c.P)
PHP(c, m, address) == pushByte(c, m, BitOr(BitOr(c.P, FlagB), FlagU))
PLA(c, m, address) ==
    LET pulled == pullByte(c, m)
    IN  Effect(setZN([pulled.cpu EXCEPT !.A = pulled.byte], pulled.byte), m)
PLP_UnusedNotForced(c, m, address) ==
    LET pulled == pullByte(c, m)
    IN  Effect([pulled.cpu EXCEPT !.P = BitAnd(pulled.byte, BitNot(FlagB))], m)
PLP(c, m, address) ==
    LET pulled == pullByte(c, m)
    IN  Effect([pulled.cpu EXCEPT !.P = BitOr(BitAnd(pulled.byte, BitNot(FlagB)), FlagU)], m)

TAX(c, m, address) == Effect(setZN([c EXCEPT !.X = c.A], c.A), m)
TXA(c, m, address) == Effect(setZN([c EXCEPT !.A = c.X], c.X), m)
TAY(c, m, address) == Effect(setZN([c EXCEPT !.Y = c.A], c.A), m)
TYA(c, m, address) == Effect(setZN([c EXCEPT !.A = c.Y], c.Y), m)
TSX(c, m, address) == Effect(setZN([c EXCEPT !.X = c.SP], c.SP), m)
TXS_SetsFlags(c, m, address) == Effect(setZN([c EXCEPT !.SP = c.X], c.X), m)
TXS(c, m, address) == Effect([c EXCEPT !.SP = c.X], m)

CLC(c, m, address) == Effect([c EXCEPT !.P = BitAnd(c.P, BitNot(FlagC))], m)
SEC(c, m, address) == Effect([c EXCEPT !.P = BitOr(c.P, FlagC)], m)
CLI(c, m, address) == Effect([c EXCEPT !.P = BitAnd(c.P, BitNot(FlagI))], m)
SEI(c, m, address) == Effect([c EXCEPT !.P = BitOr(c.P, FlagI)], m)
CLD(c, m, address) == Effect([c EXCEPT !.P = BitAnd(c.P, BitNot(FlagD))], m)
SED(c, m, address) == Effect([c EXCEPT !.P = BitOr(c.P, FlagD)], m)
CLV(c, m, address) == Effect([c EXCEPT !.P = BitAnd(c.P, BitNot(FlagV))], m)

NOP_ReadsOperand(c, m, address) == Effect(setZN(c, MemGet(m, address)), m)
NOP(c, m, address) == Effect(c, m)

BRK_SetsBreak(c, m, address) ==
    LET padding == fetchByte(c, m)
        pc == pushWord(padding.cpu, m, padding.cpu.PC)
        st == pushByte(pc.cpu, pc.memory, BitOr(BitOr(pc.cpu.P, FlagB), FlagU))
    IN  Effect([st.cpu EXCEPT !.P = BitOr(BitOr(st.cpu.P, FlagI), FlagB), !.halted = TRUE],
               st.memory)
BRK_NoPaddingByte(c, m, address) ==
    LET pc == pushWord(c, m, c.PC)
        st == pushByte(pc.cpu, pc.memory, BitOr(BitOr(pc.cpu.P, FlagB), FlagU))
    IN  Effect([st.cpu EXCEPT !.P = BitOr(st.cpu.P, FlagI), !.halted = TRUE], st.memory)

BRK(c, m, address) ==
    LET padding == fetchByte(c, m)
        pc == pushWord(padding.cpu, m, padding.cpu.PC)
        st == pushByte(pc.cpu, pc.memory, BitOr(BitOr(pc.cpu.P, FlagB), FlagU))
    IN  Effect([st.cpu EXCEPT !.P = BitOr(st.cpu.P, FlagI), !.halted = TRUE], st.memory)

----------------------------------------------------------------------------
(* The instruction table: one define per opcode, in the order of the source. *)

define_OneByte(opCode, mnemonic, mode, exec, bytes, baseCycles, pageCrossCycle, branchCycle) ==
    [opCode |-> opCode, mnemonic |-> mnemonic, addressingMode |-> mode,
     execute |-> exec, bytes |-> 1, baseCycles |-> baseCycles,
     pageCrossCycle |-> pageCrossCycle, branchCycle |-> branchCycle]
define(opCode, mnemonic, mode, exec, bytes, baseCycles, pageCrossCycle, branchCycle) ==
    [opCode |-> opCode, mnemonic |-> mnemonic, addressingMode |-> mode,
     execute |-> exec, bytes |-> bytes, baseCycles |-> baseCycles,
     pageCrossCycle |-> pageCrossCycle, branchCycle |-> branchCycle]

definitions == <<
    define(169, "LDA", "IMM", "LDA", 2, 2, FALSE, FALSE),
    define(165, "LDA", "ZP", "LDA", 2, 3, FALSE, FALSE),
    define(181, "LDA", "ZPX", "LDA", 2, 4, FALSE, FALSE),
    define(173, "LDA", "ABS", "LDA", 3, 4, FALSE, FALSE),
    define(189, "LDA", "ABSX", "LDA", 3, 4, TRUE, FALSE),
    define(185, "LDA", "ABSY", "LDA", 3, 4, TRUE, FALSE),
    define(161, "LDA", "IZX", "LDA", 2, 6, FALSE, FALSE),
    define(177, "LDA", "IZY", "LDA", 2, 5, TRUE, FALSE),
    define(162, "LDX", "IMM", "LDX", 2, 2, FALSE, FALSE),
    define(166, "LDX", "ZP", "LDX", 2, 3, FALSE, FALSE),
    define(182, "LDX", "ZPY", "LDX", 2, 4, FALSE, FALSE),
    define(174, "LDX", "ABS", "LDX", 3, 4, FALSE, FALSE),
    define(190, "LDX", "ABSY", "LDX", 3, 4, TRUE, FALSE),
    define(160, "LDY", "IMM", "LDY", 2, 2, FALSE, FALSE),
    define(164, "LDY", "ZP", "LDY", 2, 3, FALSE, FALSE),
    define(180, "LDY", "ZPX", "LDY", 2, 4, FALSE, FALSE),
    define(172, "LDY", "ABS", "LDY", 3, 4, FALSE, FALSE),
    define(188, "LDY", "ABSX", "LDY", 3, 4, TRUE, FALSE),
    define(133, "STA", "ZP", "STA", 2, 3, FALSE, FALSE),
    define(149, "STA", "ZPX", "STA", 2, 4, FALSE, FALSE),
    define(141, "STA", "ABS", "STA", 3, 4, FALSE, FALSE),
    define(157, "STA", "ABSX", "STA", 3, 5, FALSE, FALSE),
    define(153, "STA", "ABSY", "STA", 3, 5, FALSE, FALSE),
    define(129, "STA", "IZX", "STA", 2, 6, FALSE, FALSE),
    define(145, "STA", "IZY", "STA", 2, 6, FALSE, FALSE),
    define(134, "STX", "ZP", "STX", 2, 3, FALSE, FALSE),
    define(150, "STX", "ZPY", "STX", 2, 4, FALSE, FALSE),
    define(142, "STX", "ABS", "STX", 3, 4, FALSE, FALSE),
    define(132, "STY", "ZP", "STY", 2, 3, FALSE, FALSE),
    define(148, "STY", "ZPX", "STY", 2, 4, FALSE, FALSE),
    define(140, "STY", "ABS", "STY", 3, 4, FALSE, FALSE),
    define(105, "ADC", "IMM", "ADC", 2, 2, FALSE, FALSE),
    define(101, "ADC", "ZP", "ADC", 2, 3, FALSE, FALSE),
    define(117, "ADC", "ZPX", "ADC", 2, 4, FALSE, FALSE),
    define(109, "ADC", "ABS", "ADC", 3, 4, FALSE, FALSE),
    define(125, "ADC", "ABSX", "ADC", 3, 4, TRUE, FALSE),
    define(121, "ADC", "ABSY", "ADC", 3, 4, TRUE, FALSE),
    define(97, "ADC", "IZX", "ADC", 2, 6, FALSE, FALSE),
    define(113, "ADC", "IZY", "ADC", 2, 5, TRUE, FALSE),
    define(233, "SBC", "IMM", "SBC", 2, 2, FALSE, FALSE),
    define(229, "SBC", "ZP", "SBC", 2, 3, FALSE, FALSE),
    define(245, "SBC", "ZPX", "SBC", 2, 4, FALSE, FALSE),
    define(237, "SBC", "ABS", "SBC", 3, 4, FALSE, FALSE),
    define(253, "SBC", "ABSX", "SBC", 3, 4, TRUE, FALSE),
    define(249, "SBC", "ABSY", "SBC", 3, 4, TRUE, FALSE),
    define(225, "SBC", "IZX", "SBC", 2, 6, FALSE, FALSE),
    define(241, "SBC", "IZY", "SBC", 2, 5, TRUE, FALSE),
    define(144, "BCC", "REL", "BCC", 2, 2, FALSE, TRUE),
    define(176, "BCS", "REL", "BCS", 2, 2, FALSE, TRUE),
    define(240, "BEQ", "REL", "BEQ", 2, 2, FALSE, TRUE),
    define(208, "BNE", "REL", "BNE", 2, 2, FALSE, TRUE),
    define(48, "BMI", "REL", "BMI", 2, 2, FALSE, TRUE),
    define(16, "BPL", "REL", "BPL", 2, 2, FALSE, TRUE),
    define(80, "BVC", "REL", "BVC", 2, 2, FALSE, TRUE),
    define(112, "BVS", "REL", "BVS", 2, 2, FALSE, TRUE),
    define(76, "JMP", "ABS", "JMP", 3, 3, FALSE, FALSE),
    define(108, "JMP", "IND", "JMP", 3, 5, FALSE, FALSE),
    define(32, "JSR", "ABS", "JSR", 3, 6, FALSE, FALSE),
    define(96, "RTS", "IMP", "RTS", 1, 6, FALSE, FALSE),
    define(64, "RTI", "IMP", "RTI", 1, 6, FALSE, FALSE),
    define(230, "INC", "ZP", "INC", 2, 5, FALSE, FALSE),
    define(246, "INC", "ZPX", "INC", 2, 6, FALSE, FALSE),
    define(238, "INC", "ABS", "INC", 3, 6, FALSE, FALSE),
    define(254, "INC", "ABSX", "INC", 3, 7, FALSE, FALSE),
    define(198, "DEC", "ZP", "DEC", 2, 5, FALSE, FALSE),
    define(214, "DEC", "ZPX", "DEC", 2, 6, FALSE, FALSE),
    define(206, "DEC", "ABS", "DEC", 3, 6, FALSE, FALSE),
    define(222, "DEC", "ABSX", "DEC", 3, 7, FALSE, FALSE),
    define(232, "INX", "IMP", "INX", 1, 2, FALSE, FALSE),
    define(200, "INY", "IMP", "INY", 1, 2, FALSE, FALSE),
    define(202, "DEX", "IMP", "DEX", 1, 2, FALSE, FALSE),
    define(136, "DEY", "IMP", "DEY", 1, 2, FALSE, FALSE),
    define(201, "CMP", "IMM", "CMP", 2, 2, FALSE, FALSE),
    define(197, "CMP", "ZP", "CMP", 2, 3, FALSE, FALSE),
    define(213, "CMP", "ZPX", "CMP", 2, 4, FALSE, FALSE),
    define(205, "CMP", "ABS", "CMP", 3, 4, FALSE, FALSE),
    define(221, "CMP", "ABSX", "CMP", 3, 4, TRUE, FALSE),
    define(217, "CMP", "ABSY", "CMP", 3, 4, TRUE, FALSE),
    define(193, "CMP", "IZX", "CMP", 2, 6, FALSE, FALSE),
    define(209, "CMP", "IZY", "CMP", 2, 5, TRUE, FALSE),
    define(224, "CPX", "IMM", "CPX", 2, 2, FALSE, FALSE),
    define(228, "CPX", "ZP", "CPX", 2, 3, FALSE, FALSE),
    define(236, "CPX", "ABS", "CPX", 3, 4, FALSE, FALSE),
    define(192, "CPY", "IMM", "CPY", 2, 2, FALSE, FALSE),
    define(196, "CPY", "ZP", "CPY", 2, 3, FALSE, FALSE),
    define(204, "CPY", "ABS", "CPY", 3, 4, FALSE, FALSE),
    define(41, "AND", "IMM", "AND", 2, 2, FALSE, FALSE),
    define(37, "AND", "ZP", "AND", 2, 3, FALSE, FALSE),
    define(53, "AND", "ZPX", "AND", 2, 4, FALSE, FALSE),
    define(45, "AND", "ABS", "AND", 3, 4, FALSE, FALSE),
    define(61, "AND", "ABSX", "AND", 3, 4, TRUE, FALSE),
    define(57, "AND", "ABSY", "AND", 3, 4, TRUE, FALSE),
    define(33, "AND", "IZX", "AND", 2, 6, FALSE, FALSE),
    define(49, "AND", "IZY", "AND", 2, 5, TRUE, FALSE),
    define(9, "ORA", "IMM", "ORA", 2, 2, FALSE, FALSE),
    define(5, "ORA", "ZP", "ORA", 2, 3, FALSE, FALSE),
    define(21, "ORA", "ZPX", "ORA", 2, 4, FALSE, FALSE),
    define(13, "ORA", "ABS", "ORA", 3, 4, FALSE, FALSE),
    define(29, "ORA", "ABSX", "ORA", 3, 4, TRUE, FALSE),
    define(25, "ORA", "ABSY", "ORA", 3, 4, TRUE, FALSE),
    define(1, "ORA", "IZX", "ORA", 2, 6, FALSE, FALSE),
    define(17, "ORA", "IZY", "ORA", 2, 5, TRUE, FALSE),
    define(73, "EOR", "IMM", "EOR", 2, 2, FALSE, FALSE),
    define(69, "EOR", "ZP", "EOR", 2, 3, FALSE, FALSE),
    define(85, "EOR", "ZPX", "EOR", 2, 4, FALSE, FALSE),
    define(77, "EOR", "ABS", "EOR", 3, 4, FALSE, FALSE),
    define(93, "EOR", "ABSX", "EOR", 3, 4, TRUE, FALSE),
    define(89, "EOR", "ABSY", "EOR", 3, 4, TRUE, FALSE),
    define(65, "EOR", "IZX", "EOR", 2, 6, FALSE, FALSE),
    define(81, "EOR", "IZY", "EOR", 2, 5, TRUE, FALSE),
    define(36, "BIT", "ZP", "BIT", 2, 3, FALSE, FALSE),
    define(44, "BIT", "ABS", "BIT", 3, 4, FALSE, FALSE),
    define(10, "ASL", "IMP", "ASL_A", 1, 2, FALSE, FALSE),
    define(6, "ASL", "ZP", "ASL_M", 2, 5, FALSE, FALSE),
    define(22, "ASL", "ZPX", "ASL_M", 2, 6, FALSE, FALSE),
    define(14, "ASL", "ABS", "ASL_M", 3, 6, FALSE, FALSE),
    define(30, "ASL", "ABSX", "ASL_M", 3, 7, FALSE, FALSE),
    define(74, "LSR", "IMP", "LSR_A", 1, 2, FALSE, FALSE),
    define(70, "LSR", "ZP", "LSR_M", 2, 5, FALSE, FALSE),
    define(86, "LSR", "ZPX", "LSR_M", 2, 6, FALSE, FALSE),
    define(78, "LSR", "ABS", "LSR_M", 3, 6, FALSE, FALSE),
    define(94, "LSR", "ABSX", "LSR_M", 3, 7, FALSE, FALSE),
    define(42, "ROL", "IMP", "ROL_A", 1, 2, FALSE, FALSE),
    define(38, "ROL", "ZP", "ROL_M", 2, 5, FALSE, FALSE),
    define(54, "ROL", "ZPX", "ROL_M", 2, 6, FALSE, FALSE),
    define(46, "ROL", "ABS", "ROL_M", 3, 6, FALSE, FALSE),
    define(62, "ROL", "ABSX", "ROL_M", 3, 7, FALSE, FALSE),
    define(106, "ROR", "IMP", "ROR_A", 1, 2, FALSE, FALSE),
    define(102, "ROR", "ZP", "ROR_M", 2, 5, FALSE, FALSE),
    define(118, "ROR", "ZPX", "ROR_M", 2, 6, FALSE, FALSE),
    define(110, "ROR", "ABS", "ROR_M", 3, 6, FALSE, FALSE),
    define(126, "ROR", "ABSX", "ROR_M", 3, 7, FALSE, FALSE),
    define(72, "PHA", "IMP", "PHA", 1, 3, FALSE, FALSE),
    define(8, "PHP", "IMP", "PHP", 1, 3, FALSE, FALSE),
    define(104, "PLA", "IMP", "PLA", 1, 4, FALSE, FALSE),
    define(40, "PLP", "IMP", "PLP", 1, 4, FALSE, FALSE),
    define(170, "TAX", "IMP", "TAX", 1, 2, FALSE, FALSE),
    define(138, "TXA", "IMP", "TXA", 1, 2, FALSE, FALSE),
    define(168, "TAY", "IMP", "TAY", 1, 2, FALSE, FALSE),
    define(152, "TYA", "IMP", "TYA", 1, 2, FALSE, FALSE),
    define(186, "TSX", "IMP", "TSX", 1, 2, FALSE, FALSE),
    define(154, "TXS", "IMP", "TXS", 1, 2, FALSE, FALSE),
    define(24, "CLC", "IMP", "CLC", 1, 2, FALSE, FALSE),
    define(56, "SEC", "IMP", "SEC", 1, 2, FALSE, FALSE),
    define(88, "CLI", "IMP", "CLI", 1, 2, FALSE, FALSE),
    define(120, "SEI", "IMP", "SEI", 1, 2, FALSE, FALSE),
    define(216, "CLD", "IMP", "CLD", 1, 2, FALSE, FALSE),
    define(248, "SED", "IMP", "SED", 1, 2, FALSE, FALSE),
    define(184, "CLV", "IMP", "CLV", 1, 2, FALSE, FALSE),
    define(234, "NOP", "IMP", "NOP", 1, 2, FALSE, FALSE),
    define(0, "BRK", "IMP", "BRK", 1, 7, FALSE, FALSE),
    define(26, "NOP*", "IMP", "NOP", 1, 2, FALSE, FALSE),
    define(58, "NOP*", "IMP", "NOP", 1, 2, FALSE, FALSE),
    define(90, "NOP*", "IMP", "NOP", 1, 2, FALSE, FALSE),
    define(122, "NOP*", "IMP", "NOP", 1, 2, FALSE, FALSE),
    define(218, "NOP*", "IMP", "NOP", 1, 2, FALSE, FALSE),
    define(250, "NOP*", "IMP", "NOP", 1, 2, FALSE, FALSE),
    define(128, "NOP*", "IMM", "NOP", 2, 2, FALSE, FALSE),
    define(4, "NOP*", "ZP", "NOP", 2, 3, FALSE, FALSE)
>>

(* Map.set: a later define of the same opcode replaces an earlier one. *)
instructionSet ==
    [op \in {definitions[i].opCode : i \in DOMAIN definitions} |->
        LET i == CHOOSE j \in DOMAIN definitions :
                     /\ definitions[j].opCode = op
                     /\ \A k \in DOMAIN definitions :
                            definitions[k].opCode = op => k <= j
        IN  definitions[i]]

(* getInstructionDefinition yields undefined for an opcode with no entry. *)
isDefined(opCode) == opCode \in DOMAIN instructionSet

getInstructionDefinition(opCode) == instructionSet[opCode]

execute(exec, c, m, address) ==
    CASE exec = "ADC" -> ADC(c, m, address)
      [] exec = "AND" -> AND(c, m, address)
      [] exec = "ASL_A" -> ASL_A(c, m, address)
      [] exec = "ASL_M" -> ASL_M(c, m, address)
      [] exec = "BCC" -> BCC(c, m, address)
      [] exec = "BCS" -> BCS(c, m, address)
      [] exec = "BEQ" -> BEQ(c, m, address)
      [] exec = "BIT" -> BIT(c, m, address)
      [] exec = "BMI" -> BMI(c, m, address)
      [] exec = "BNE" -> BNE(c, m, address)
      [] exec = "BPL" -> BPL(c, m, address)
      [] exec = "BRK" -> BRK(c, m, address)
      [] exec = "BVC" -> BVC(c, m, address)
      [] exec = "BVS" -> BVS(c, m, address)
      [] exec = "CLC" -> CLC(c, m, address)
      [] exec = "CLD" -> CLD(c, m, address)
      [] exec = "CLI" -> CLI(c, m, address)
      [] exec = "CLV" -> CLV(c, m, address)
      [] exec = "CMP" -> CMP(c, m, address)
      [] exec = "CPX" -> CPX(c, m, address)
      [] exec = "CPY" -> CPY(c, m, address)
      [] exec = "DEC" -> DEC(c, m, address)
      [] exec = "DEX" -> DEX(c, m, address)
      [] exec = "DEY" -> DEY(c, m, address)
      [] exec = "EOR" -> EOR(c, m, address)
      [] exec = "INC" -> INC(c, m, address)
      [] exec = "INX" -> INX(c, m, address)
      [] exec = "INY" -> INY(c, m, address)
      [] exec = "JMP" -> JMP(c, m, address)
      [] exec = "JSR" -> JSR(c, m, address)
      [] exec = "LDA" -> LDA(c, m, address)
      [] exec = "LDX" -> LDX(c, m, address)
      [] exec = "LDY" -> LDY(c, m, address)
      [] exec = "LSR_A" -> LSR_A(c, m, address)
      [] exec = "LSR_M" -> LSR_M(c, m, address)
      [] exec = "NOP" -> NOP(c, m, address)
      [] exec = "ORA" -> ORA(c, m, address)
      [] exec = "PHA" -> PHA(c, m, address)
      [] exec = "PHP" -> PHP(c, m, address)
      [] exec = "PLA" -> PLA(c, m, address)
      [] exec = "PLP" -> PLP(c, m, address)
      [] exec = "ROL_A" -> ROL_A(c, m, address)
      [] exec = "ROL_M" -> ROL_M(c, m, address)
      [] exec = "ROR_A" -> ROR_A(c, m, address)
      [] exec = "ROR_M" -> ROR_M(c, m, address)
      [] exec = "RTI" -> RTI(c, m, address)
      [] exec = "RTS" -> RTS(c, m, address)
      [] exec = "SBC" -> SBC(c, m, address)
      [] exec = "SEC" -> SEC(c, m, address)
      [] exec = "SED" -> SED(c, m, address)
      [] exec = "SEI" -> SEI(c, m, address)
      [] exec = "STA" -> STA(c, m, address)
      [] exec = "STX" -> STX(c, m, address)
      [] exec = "STY" -> STY(c, m, address)
      [] exec = "TAX" -> TAX(c, m, address)
      [] exec = "TAY" -> TAY(c, m, address)
      [] exec = "TSX" -> TSX(c, m, address)
      [] exec = "TXA" -> TXA(c, m, address)
      [] exec = "TXS" -> TXS(c, m, address)
      [] exec = "TYA" -> TYA(c, m, address)

----------------------------------------------------------------------------
(* The emulator hook: processor state, reset, program load and step.       *)

initialCPUState ==
    [A |-> 0, X |-> 0, Y |-> 0, PC |-> DEFAULT_PROGRAM_LOAD_ADDRESS, SP |-> 253,
     P |-> BitOr(FlagU, FlagI), cycles |-> 0, halted |-> FALSE]

(* An optional argument: undefined, or a number. *)
Undefined == [given |-> FALSE, value |-> 0]
Given(n) == [given |-> TRUE, value |-> n]
Falsy(arg) == ~arg.given \/ arg.value = 0

resetCPU_VectorIgnored(loadAddress, m) ==
    [initialCPUState EXCEPT !.PC = IF loadAddress.given THEN loadAddress.value
                                   ELSE DEFAULT_PROGRAM_LOAD_ADDRESS,
                            !.P = BitOr(FlagU, FlagI),
                            !.SP = 253, !.halted = FALSE, !.cycles = 0]

(* resetCPU(loadAddress) as run by a closure that holds memory m. *)
resetCPU(loadAddress, m) ==
    LET fallback == IF loadAddress.given THEN loadAddress.value
                                         ELSE DEFAULT_PROGRAM_LOAD_ADDRESS
        lowByte == MemGet(m, RESET_VECTOR_ADDRESS)
        highByte == MemGet(m, RESET_VECTOR_ADDRESS + 1)
        startPC == IF Falsy(loadAddress) THEN BitOr(Shl(highByte, 8), lowByte)
                                         ELSE fallback
    IN  [initialCPUState EXCEPT !.PC = startPC, !.P = BitOr(FlagU, FlagI),
                                !.SP = 253, !.halted = FALSE, !.cycles = 0]

(* Hex text is a sequence of one-character strings. *)
HexDigitValue ==
    "0" :> 0 @@ "1" :> 1 @@ "2" :> 2 @@ "3" :> 3 @@ "4" :> 4 @@ "5" :> 5 @@
    "6" :> 6 @@ "7" :> 7 @@ "8" :> 8 @@ "9" :> 9 @@
    "A" :> 10 @@ "B" :> 11 @@ "C" :> 12 @@ "D" :> 13 @@ "E" :> 14 @@ "F" :> 15 @@
    "a" :> 10 @@ "b" :> 11 @@ "c" :> 12 @@ "d" :> 13 @@ "e" :> 14 @@ "f" :> 15

IsHexDigit(ch) == ch \in DOMAIN HexDigitValue

IsWhitespace(ch) == ch \in {" ", "\t", "\n", "\r"}

(* hexString.replace(/\s+/g, '') *)
removeWhitespace(text) == SelectSeq(text, LAMBDA ch : ~IsWhitespace(ch))

(* parseInt(s, 16) of a two-character string: an optional sign, an optional *)
(* 0x prefix, then the longest run of hex digits; NaN when that run is      *)
(* empty.  Characters after the run are ignored.                            *)
RECURSIVE hexPrefixValue(_, _)
hexPrefixValue(digits, acc) ==
    IF digits = <<>> \/ ~IsHexDigit(Head(digits)) THEN acc
    ELSE hexPrefixValue(Tail(digits), 16 * acc + HexDigitValue[Head(digits)])

parseInt16(pair) ==
    LET signed == pair # <<>> /\ Head(pair) \in {"+", "-"}
        sign == IF signed /\ Head(pair) = "-" THEN -1 ELSE 1
        unsignedPart == IF signed THEN Tail(pair) ELSE pair
        prefixed == Len(unsignedPart) >= 2 /\ unsignedPart[1] = "0"
                    /\ unsignedPart[2] \in {"x", "X"}
        digits == IF prefixed THEN SubSeq(unsignedPart, 3, Len(unsignedPart))
                              ELSE unsignedPart
    IN  IF digits = <<>> \/ ~IsHexDigit(Head(digits))
        THEN [nan |-> TRUE, value |-> 0]
        ELSE [nan |-> FALSE, value |-> sign * hexPrefixValue(digits, 0)]

loadProgram_FitUnchecked(hexString, loadAddr, c, m) ==
    LET rejected == [accepted |-> FALSE, cpu |-> c, memory |-> m,
                     hexString |-> hexString, loadAddr |-> loadAddr]
        text == removeWhitespace(hexString)
        bytes == [i \in 1..(Len(text) \div 2) |-> parseInt16(SubSeq(text, 2 * i - 1, 2 * i))]
        newMemory[i \in 0..Len(bytes)] ==
            IF i = 0 THEN EmptyMemory
            ELSE MemSet(newMemory[i - 1], loadAddr + i - 1, bytes[i].value)
    IN  IF hexString = <<>> THEN rejected
        ELSE IF loadAddr < 0 \/ loadAddr >= MEMORY_SIZE THEN rejected
        ELSE IF Len(text) = 0 THEN rejected
        ELSE IF Len(text) % 2 # 0 THEN rejected
        ELSE IF \E i \in DOMAIN bytes : bytes[i].nan THEN rejected
        ELSE [accepted |-> TRUE, cpu |-> resetCPU(Given(loadAddr), m),
              memory |-> newMemory[Len(bytes)],
              hexString |-> hexString, loadAddr |-> loadAddr]

(* loadProgram(hexString, loadAddr), run by a closure whose resetCPU holds  *)
(* the memory m of the render it was created in.  Yields whether the        *)
(* request was accepted and the state it leaves.                            *)
loadProgram(hexString, loadAddr, c, m) ==
    LET rejected == [accepted |-> FALSE, cpu |-> c, memory |-> m,
                     hexString |-> hexString, loadAddr |-> loadAddr]
        text == removeWhitespace(hexString)
        bytes == [i \in 1..(Len(text) \div 2) |-> parseInt16(SubSeq(text, 2 * i - 1, 2 * i))]
        newMemory[i \in 0..Len(bytes)] ==
            IF i = 0 THEN EmptyMemory
            ELSE MemSet(newMemory[i - 1], loadAddr + i - 1, bytes[i].value)
    IN  IF hexString = <<>> THEN rejected
        ELSE IF loadAddr < 0 \/ loadAddr >= MEMORY_SIZE THEN rejected
        ELSE IF Len(text) = 0 THEN rejected
        ELSE IF Len(text) % 2 # 0 THEN rejected
        ELSE IF \E i \in DOMAIN bytes : bytes[i].nan THEN rejected
        ELSE IF loadAddr + Len(bytes) > MEMORY_SIZE THEN rejected
        ELSE [accepted |-> TRUE, cpu |-> resetCPU(Given(loadAddr), m),
              memory |-> newMemory[Len(bytes)],
              hexString |-> hexString, loadAddr |-> loadAddr]

(* step(): the state update for processor state c over memory m, in the    *)
(* stages of the source: the halted and unknown-opcode returns, the         *)
(* addressing mode, the effect function, the cycle update.  No effect       *)
(* function throws, so the catch branch is never taken.                     *)
StepResult(outcome, opCode, address, pageCrossed, c, m) ==
    [outcome |-> outcome, opCode |-> opCode, address |-> address,
     pageCrossed |-> pageCrossed, cpu |-> c, memory |-> m]

updateCycles_PageCrossUnflagged(instructionDef, addrResult, done) ==
    StepResult("executed", instructionDef.opCode, addrResult.address,
               addrResult.pageCrossed,
               [done.cpu EXCEPT !.cycles =
                   done.cpu.cycles + instructionDef.baseCycles
                   + (IF addrResult.pageCrossed THEN 1 ELSE 0)],
               done.memory)

updateCycles_BaseOmitted(instructionDef, addrResult, done) ==
    StepResult("executed", instructionDef.opCode, addrResult.address,
               addrResult.pageCrossed,
               [done.cpu EXCEPT !.cycles =
                   done.cpu.cycles
                   + (IF instructionDef.pageCrossCycle /\ addrResult.pageCrossed
                      THEN 1 ELSE 0)],
               done.memory)

updateCycles(instructionDef, addrResult, done) ==
    StepResult("executed", instructionDef.opCode, addrResult.address,
               addrResult.pageCrossed,
               [done.cpu EXCEPT !.cycles =
                   done.cpu.cycles + instructionDef.baseCycles
                   + (IF instructionDef.pageCrossCycle /\ addrResult.pageCrossed
                      THEN 1 ELSE 0)],
               done.memory)

executeInstruction(instructionDef, addrResult, m) ==
    updateCycles(instructionDef, addrResult,
                 execute(instructionDef.execute, addrResult.cpu, m, addrResult.address))

resolveAddressingMode(instructionDef, newCpu, m) ==
    executeInstruction(instructionDef,
                       IF instructionDef.addressingMode # "IMP"
                       THEN addressingMode(instructionDef.addressingMode, newCpu, m)
                       ELSE [address |-> 0, pageCrossed |-> FALSE, cpu |-> newCpu],
                       m)

decode_PCNotRestored(c, m, currentPC, opCode, newCpu) ==
    IF ~isDefined(opCode)
    THEN StepResult("unknown", opCode, 0, FALSE, [newCpu EXCEPT !.halted = TRUE], m)
    ELSE resolveAddressingMode(getInstructionDefinition(opCode), newCpu, m)

decode(c, m, currentPC, opCode, newCpu) ==
    IF ~isDefined(opCode)
    THEN StepResult("unknown", opCode, 0, FALSE,
                    [newCpu EXCEPT !.PC = currentPC, !.halted = TRUE], m)
    ELSE resolveAddressingMode(getInstructionDefinition(opCode), newCpu, m)

step_HaltedIgnored(c, m) ==
    IF c.PC < 0 \/ c.PC >= MEMORY_SIZE
    THEN StepResult("pc-out-of-bounds", 0, 0, FALSE, [c EXCEPT !.halted = TRUE], m)
    ELSE decode(c, m, c.PC, MemGet(m, c.PC), [c EXCEPT !.PC = BitAnd(c.PC + 1, 65535)])

step(c, m) ==
    IF c.halted
    THEN StepResult("halted", 0, 0, FALSE, c, m)
    ELSE IF c.PC < 0 \/ c.PC >= MEMORY_SIZE
    THEN StepResult("pc-out-of-bounds", 0, 0, FALSE, [c EXCEPT !.halted = TRUE], m)
    ELSE decode(c, m, c.PC, MemGet(m, c.PC), [c EXCEPT !.PC = BitAnd(c.PC + 1, 65535)])

----------------------------------------------------------------------------
(* disassemble, readMemoryByte and writeMemoryByte.  Text is a sequence of  *)
(* string pieces whose concatenation is the JavaScript string.  A call that *)
(* throws is a result with threw = TRUE.                                    *)

(* n.toString(16).padStart(width, '0') *)
RECURSIVE toHex(_, _)
toHex(n, width) ==
    LET digit == <<"0", "1", "2", "3", "4", "5", "6", "7", "8", "9",
                   "a", "b", "c", "d", "e", "f">>[(n % 16) + 1]
    IN  IF n < 16 /\ width <= 1 THEN <<digit>>
        ELSE toHex(n \div 16, width - 1) \o <<digit>>

(* The operand text of the instruction at currentAddress.  An operand byte  *)
(* beyond the end of memory is undefined: toString on it throws, the        *)
(* relative target computed from it is NaN & 0xFFFF = 0, and it counts as 0 *)
(* in the shift and or of a word.                                           *)
operandStr(instructionDef, m, currentAddress) ==
    LET mode == instructionDef.addressingMode
        operand == MemGet(m, currentAddress + 1)
        relAddr == IF IsIndex(currentAddress + 1)
                   THEN (currentAddress + 2
                         + (IF operand > 127 THEN operand - 256 ELSE operand)) % 65536
                   ELSE 0
        operandLow == IF IsIndex(currentAddress + 1) THEN MemGet(m, currentAddress + 1) ELSE 0
        operandHigh == IF IsIndex(currentAddress + 2) THEN MemGet(m, currentAddress + 2) ELSE 0
        operandWord == BitOr(Shl(operandHigh, 8), operandLow)
        str(s) == [threw |-> FALSE, text |-> s]
    IN  IF instructionDef.bytes = 2
        THEN IF mode = "REL" THEN str(<<"$">> \o toHex(relAddr, 4))
             ELSE IF ~IsIndex(currentAddress + 1) THEN [threw |-> TRUE, text |-> <<>>]
             ELSE CASE mode = "IMM" -> str(<<"#$">> \o toHex(operand, 2))
                    [] mode = "ZPX" -> str(<<"$">> \o toHex(operand, 2) \o <<",X">>)
                    [] mode = "ZPY" -> str(<<"$">> \o toHex(operand, 2) \o <<",Y">>)
                    [] mode = "IZX" -> str(<<"($">> \o toHex(operand, 2) \o <<",X)">>)
                    [] mode = "IZY" -> str(<<"($">> \o toHex(operand, 2) \o <<"),Y">>)
                    [] OTHER -> str(<<"$">> \o toHex(operand, 2))
        ELSE IF instructionDef.bytes = 3
        THEN CASE mode = "ABSX" -> str(<<"$">> \o toHex(operandWord, 4) \o <<",X">>)
               [] mode = "ABSY" -> str(<<"$">> \o toHex(operandWord, 4) \o <<",Y">>)
               [] mode = "IND" -> str(<<"($">> \o toHex(operandWord, 4) \o <<")">>)
               [] OTHER -> str(<<"$">> \o toHex(operandWord, 4))
        ELSE str(<<>>)

(* One pass of the loop body: the record pushed and the byte length by      *)
(* which currentAddress advances.                                           *)
InstructionInfo(m, currentAddress, opCode, mnemonic, operandText, bytes, text, length) ==
    [threw |-> operandText.threw,
     length |-> length,
     record |-> [address |-> currentAddress, opCode |-> opCode, mnemonic |-> mnemonic,
                 operandStr |-> operandText.text, bytes |-> bytes,
                 text |-> text \o operandText.text]]

disassembleAt(m, currentAddress) ==
    LET opCode == MemGet(m, currentAddress)
        instructionDef == getInstructionDefinition(opCode)
    IN  IF ~IsIndex(currentAddress)
        THEN InstructionInfo(m, currentAddress, 0, "???", [threw |-> TRUE, text |-> <<>>],
                             <<>>, <<>>, 1)
        ELSE IF isDefined(opCode)
        THEN InstructionInfo(m, currentAddress, opCode, instructionDef.mnemonic,
                             operandStr(instructionDef, m, currentAddress),
                             <<opCode>> \o [j \in 1..(instructionDef.bytes - 1) |->
                                 IF currentAddress + j < MEMORY_SIZE
                                 THEN MemGet(m, currentAddress + j) ELSE 0],
                             <<instructionDef.mnemonic, " ">>,
                             instructionDef.bytes)
        ELSE InstructionInfo(m, currentAddress, opCode, "???",
                             [threw |-> FALSE, text |-> <<>>],
                             <<opCode>>, <<"DB $">> \o toHex(opCode, 2), 1)

(* The for loop, from its i-th pass on. *)
RECURSIVE disassemblyLoop(_, _, _, _, _)
disassemblyLoop(m, i, count, currentAddress, disassembly) ==
    IF ~(i < count /\ currentAddress < MEMORY_SIZE)
    THEN [threw |-> FALSE, disassembly |-> disassembly, currentAddress |-> currentAddress]
    ELSE LET info == disassembleAt(m, currentAddress)
         IN  IF info.threw
             THEN [threw |-> TRUE, disassembly |-> disassembly,
                   currentAddress |-> currentAddress]
             ELSE disassemblyLoop(m, i + 1, count, currentAddress + info.length,
                                  Append(disassembly, info.record))

disassemble(startAddress, count, m) == disassemblyLoop(m, 0, count, startAddress, <<>>)

(* A number argument: an integer, or NaN. *)
Number(n) == [nan |-> FALSE, value |-> n]

NaN == [nan |-> TRUE, value |-> 0]

(* typeof x !== 'number' is false for every number; NaN < 0 is false. *)
readMemoryByte(address, m) ==
    IF ~address.nan /\ address.value < 0
    THEN [threw |-> TRUE, value |-> 0]
    ELSE [threw |-> FALSE,
          value |-> MemGet(m, IF address.nan THEN 0 ELSE BitAnd(address.value, 65535))]

writeMemoryByte(address, value, m) ==
    IF ~address.nan /\ address.value < 0 THEN [threw |-> TRUE, memory |-> m]
    ELSE IF ~value.nan /\ (value.value < 0 \/ value.value > 255)
    THEN [threw |-> TRUE, memory |-> m]
    ELSE [threw |-> FALSE,
          memory |-> MemSet(m, IF address.nan THEN 0 ELSE BitAnd(address.value, 65535),
                            IF value.nan THEN 0 ELSE BitAnd(value.value, 255))]

----------------------------------------------------------------------------
(* The application component and its run mode.  app is what the component   *)
(* keeps between renders: the state the committed render saw (isRunning,    *)
(* runSpeed, cpu.halted), the values queued by the state setters for the    *)
(* next render, runIntervalRef.current, the intervals live in the window,   *)
(* and whether the passive effects of the committed render are still to     *)
(* run.  A handler runs to completion; a render commits the queued state;   *)
(* the effects of a render run after it and before the next render.         *)

Null == 0

initialApp ==
    [mounted |-> FALSE, isRunning |-> FALSE, runSpeed |-> 100, halted |-> FALSE,
     nextRunning |-> FALSE, nextSpeed |-> 100, updated |-> FALSE,
     stepChanged |-> FALSE, runIntervalRef |-> Null, timers |-> {},
     effects |-> FALSE]

(* window.setInterval: the id of the new interval, the least one that is    *)
(* neither live nor the one runIntervalRef still holds.                     *)
setInterval(a) ==
    CHOOSE id \in 1..(Cardinality(a.timers) + 2) :
        /\ id \notin a.timers \cup {a.runIntervalRef}
        /\ \A lower \in 1..(id - 1) : lower \in a.timers \cup {a.runIntervalRef}

clearInterval(a, id) == [a EXCEPT !.timers = @ \ {id}]

handleRun(a, shouldRun) ==
    LET queued == [a EXCEPT !.nextRunning = shouldRun]
        cleared == IF a.runIntervalRef # Null
                   THEN clearInterval(queued, a.runIntervalRef)
                   ELSE queued
    IN  IF shouldRun
        THEN [cleared EXCEPT !.timers = @ \cup {setInterval(cleared)},
                             !.runIntervalRef = setInterval(cleared)]
        ELSE [cleared EXCEPT !.runIntervalRef = Null]

(* The passive effects of the committed render in source order: the halt    *)
(* effect, then the restart effect, each closed over the isRunning and the  *)
(* cpu.halted of that render.                                               *)
flushEffects_HaltIgnored(a) ==
    IF ~a.effects THEN a
    ELSE IF a.isRunning /\ ~a.halted
    THEN handleRun([a EXCEPT !.effects = FALSE], TRUE)
    ELSE [a EXCEPT !.effects = FALSE]

flushEffects(a) ==
    IF ~a.effects THEN a
    ELSE IF a.isRunning /\ a.halted
    THEN handleRun([a EXCEPT !.effects = FALSE], FALSE)
    ELSE IF a.isRunning /\ ~a.halted
    THEN handleRun([a EXCEPT !.effects = FALSE], TRUE)
    ELSE [a EXCEPT !.effects = FALSE]

NeedsRender(a) ==
    a.updated \/ a.nextRunning # a.isRunning \/ a.nextSpeed # a.runSpeed

(* A render and its commit over the hook's processor state c: the effects   *)
(* still pending run first, the queued state becomes the committed state,   *)
(* and the halt and restart effects are scheduled when one of their         *)
(* dependencies (cpu.halted, isRunning, runSpeed, handleRun through step    *)
(* and runSpeed) changed.                                                   *)
render(a, c) ==
    LET f == flushEffects(a)
    IN  [f EXCEPT !.isRunning = f.nextRunning, !.runSpeed = f.nextSpeed,
                  !.halted = c.halted, !.updated = FALSE, !.stepChanged = FALSE,
                  !.effects = \/ f.nextRunning # f.isRunning
                              \/ f.nextSpeed # f.runSpeed
                              \/ c.halted # f.halted
                              \/ f.stepChanged]

(* After the handler of a click or an input event: the render of the state  *)
(* it queued happens before any other task, and the effects of that render  *)
(* run with it.                                                             *)
afterEvent(a, c) == IF NeedsRender(a) THEN flushEffects(render(a, c)) ELSE a

(* Setters of the hook called by a handler: step replaces memory, which     *)
(* gives step and handleRun a new identity.                                 *)
hookUpdated(a, newMemory) ==
    [a EXCEPT !.updated = TRUE, !.stepChanged = @ \/ newMemory]

----------------------------------------------------------------------------
(* The state machine.  cpu and memory are the hook's state.  last records   *)
(* the operation that produced the current state (for a step: the opcode,   *)
(* the outcome, the resolved operand and the processor state it started     *)
(* from); before is the record of the step preceding it.                    *)

MaxCycles == 24

NoRequest == [hex |-> <<>>, addr |-> 0]

Record(op, outcome, opCode, address, pageCrossed, c) ==
    [op |-> op, outcome |-> outcome, opCode |-> opCode, address |-> address,
     pageCrossed |-> pageCrossed, cpu |-> c, request |-> NoRequest]

NoStep == Record("none", "none", 0, 0, FALSE, initialCPUState)

(* createHexProgram: two upper-case hex digits per byte, joined by spaces. *)
HexDigits == <<"0", "1", "2", "3", "4", "5", "6", "7", "8", "9",
               "A", "B", "C", "D", "E", "F">>

RECURSIVE createHexProgram(_)
createHexProgram(bytes) ==
    IF bytes = <<>> THEN <<>>
    ELSE LET b == Head(bytes)
             pair == <<HexDigits[(b \div 16) + 1], HexDigits[(b % 16) + 1]>>
         IN  IF Len(bytes) = 1 THEN pair
             ELSE pair \o <<" ">> \o createHexProgram(Tail(bytes))

Request(bytes, addr) == [hex |-> createHexProgram(bytes), addr |-> addr]

(* Load requests of the full machine: the application's default program,   *)
(* programs that reach each control path of step, and malformed requests.  *)
LoadRequests ==
    { Request(<<169, 192, 162, 193, 160, 194, 133, 0, 134, 1, 132, 2, 76, 12, 2>>, 512),
      Request(<<169, 1, 255>>, 512),
      Request(<<202, 154, 72, 104, 232, 200, 136, 136>>, 512),
      Request(<<162, 0, 154, 8, 40, 32, 10, 2, 2, 0, 96>>, 512),
      Request(<<169, 255, 72, 40, 72, 72, 72, 64>>, 512),
      Request(<<208, 16>>, 512),
      Request(<<208, 240>>, 512),
      Request(<<56, 169, 127, 105, 1, 233, 129, 24, 106>>, 768),
      Request(<<234>>, 65535),
      Request(<<108, 255, 0>>, 0),
      Request(<<234, 234>>, 65535),
      Request(<<234>>, 65536),
      Request(<<234>>, -1),
      Request(<<0, 128>>, RESET_VECTOR_ADDRESS),
      [hex |-> <<>>, addr |-> 512],
      [hex |-> <<" ", " ">>, addr |-> 512],
      [hex |-> <<"A", "9", "0">>, addr |-> 512],
      [hex |-> <<"G", "4">>, addr |-> 512] }

ResetArguments == {Undefined, Given(0), Given(DEFAULT_PROGRAM_LOAD_ADDRESS)}

Init ==
    /\ cpu = initialCPUState
    /\ memory = EmptyMemory
    /\ last = Record("init", "none", 0, 0, FALSE, initialCPUState)
    /\ before = NoStep
    /\ app = initialApp

LoadTo(r) ==
    /\ cpu' = r.cpu
    /\ memory' = r.memory
    /\ last' = [Record("load", IF r.accepted THEN "accepted" ELSE "rejected",
                       0, 0, FALSE, r.cpu)
                EXCEPT !.request = [hex |-> r.hexString, addr |-> r.loadAddr]]
    /\ before' = NoStep
    /\ UNCHANGED app

LoadFrom(requests) ==
    \E req \in requests : LoadTo(loadProgram(req.hex, req.addr, cpu, memory))

LoadProgram == LoadFrom(LoadRequests)

ResetCPU ==
    \E arg \in ResetArguments :
        /\ cpu' = resetCPU(arg, memory)
        /\ memory' = memory
        /\ last' = Record("reset", IF arg.given THEN "override" ELSE "default",
                          0, arg.value, FALSE, cpu')
        /\ before' = NoStep
        /\ UNCHANGED app

StepTo(r) ==
    /\ cpu' = r.cpu
    /\ memory' = r.memory
    /\ last' = Record("step", r.outcome, r.opCode, r.address, r.pageCrossed, cpu)
    /\ before' = IF last.op = "step" THEN last ELSE NoStep
    /\ UNCHANGED app

Step ==
    /\ cpu.halted \/ cpu.cycles < MaxCycles
    /\ StepTo(step(cpu, memory))

Next == LoadProgram \/ ResetCPU \/ Step

Spec == Init /\ [][Next]_vars

----------------------------------------------------------------------------
(* One instruction from a chosen register state.  A fresh emulator is       *)
(* loaded with a program made of a prologue that sets SP, the status        *)
(* register, X, Y and A, followed by one instruction: every opcode 0..255   *)
(* with its operand bytes, placed either at the default address or so that  *)
(* its last byte is the last byte of memory.                                *)

(* LDX #sp, TXS, LDA #p, PHA, LDX #x, LDY #y, LDA #a, PLP *)
Prologue(a, x, y, sp, p) == <<162, sp, 154, 169, p, 72, 162, x, 160, y, 169, a, 40>>

Prologues ==
    { <<>>,
      Prologue(255, 255, 255, 0, 239),
      Prologue(128, 1, 127, 255, 97) }

OperandBytes == {0, 128, 255}

Instruction(opCode, b1, b2) ==
    LET n == IF isDefined(opCode) THEN getInstructionDefinition(opCode).bytes ELSE 1
    IN  SubSeq(<<opCode, b1, b2>>, 1, n)

OpcodePrograms ==
    { pro \o Instruction(opCode, b1, b2) :
        pro \in Prologues, opCode \in Byte, b1 \in OperandBytes, b2 \in {0, 1, 255} }

(* LDA #v, PHA, PLP, PHP and LDA #v, PHA, PHA, PHA, RTI: each byte pulled   *)
(* as a status, and each status so obtained pushed again.                   *)
StatusPrograms ==
    { <<169, v, 72, 40, 8>> : v \in Byte } \cup { <<169, v, 72, 72, 72, 64>> : v \in Byte }

OpcodeRequests ==
    { Request(prog, DEFAULT_PROGRAM_LOAD_ADDRESS) : prog \in OpcodePrograms \cup StatusPrograms }
    \cup { Request(prog, MEMORY_SIZE - Len(prog)) : prog \in OpcodePrograms }

LoadOpcodeProgram == last.op = "init" /\ LoadFrom(OpcodeRequests)

NextOpcodes == LoadOpcodeProgram \/ Step

SpecOpcodes == Init /\ [][NextOpcodes]_vars

----------------------------------------------------------------------------
(* Conditional branches: each branch opcode with each operand, after the   *)
(* program has stored a byte in the zero-page cell the operand names and    *)
(* pulled the status register, placed so that the branch sits in the middle *)
(* of a page, at the end of a page and at the top of memory.                *)
BranchOpcodes == {16, 48, 80, 112, 144, 176, 208, 240}

BranchOperands == {0, 16, 127, 128, 240, 255}

BranchCellValues == {0, 16, 255}

BranchStatusValues == {0, 255}

BranchProgram(value, status, opCode, operand) ==
    <<169, value, 133, operand, 169, status, 72, 40, opCode, operand>>

BranchBases == {DEFAULT_PROGRAM_LOAD_ADDRESS, 756, MEMORY_SIZE - 10}

LoadBranchProgram ==
    /\ last.op = "init"
    /\ \E value \in BranchCellValues, status \in BranchStatusValues,
          opCode \in BranchOpcodes, operand \in BranchOperands, base \in BranchBases :
          LoadTo(loadProgram(createHexProgram(BranchProgram(value, status, opCode, operand)),
                             base, cpu, memory))

NextBranch == LoadBranchProgram \/ Step

SpecBranch == Init /\ [][NextBranch]_vars

----------------------------------------------------------------------------
(* ADC and SBC: CLC or SEC, LDA #a, then ADC #m (SBC #m), for every a, m    *)
(* and carry.                                                               *)
AdcProgram(carry, a, m) == <<IF carry = 1 THEN 56 ELSE 24, 169, a, 105, m>>

SbcProgram(carry, a, m) == <<IF carry = 1 THEN 56 ELSE 24, 169, a, 233, m>>

LoadAdcProgram ==
    /\ last.op = "init"
    /\ \E carry \in {0, 1}, a \in Byte, m \in Byte :
          LoadTo(loadProgram(createHexProgram(AdcProgram(carry, a, m)),
                             DEFAULT_PROGRAM_LOAD_ADDRESS, cpu, memory))

NextAdc == LoadAdcProgram \/ Step

SpecAdc == Init /\ [][NextAdc]_vars

LoadSbcProgram ==
    /\ last.op = "init"
    /\ \E carry \in {0, 1}, a \in Byte, m \in Byte :
          LoadTo(loadProgram(createHexProgram(SbcProgram(carry, a, m)),
                             DEFAULT_PROGRAM_LOAD_ADDRESS, cpu, memory))

NextSbc == LoadSbcProgram \/ Step

SpecSbc == Init /\ [][NextSbc]_vars

----------------------------------------------------------------------------
(* Subroutines: JMP entry; RTS; entry: LDX #sp; TXS; JSR to the RTS, and    *)
(* LDX #sp; TXS; JSR over a gap to an RTS, for every sp.  The bases put the *)
(* JSR in the middle of a page, across a page boundary, inside the stack    *)
(* page and in the last three bytes of memory.                              *)
CallBackProgram(base, sp) ==
    <<76, (base + 4) % 256, (base + 4) \div 256, 96,
      162, sp, 154, 32, (base + 3) % 256, (base + 3) \div 256>>

CallAheadProgram(base, sp) ==
    <<162, sp, 154, 32, (base + 8) % 256, (base + 8) \div 256, 0, 0, 96>>

CallBases == {DEFAULT_PROGRAM_LOAD_ADDRESS, 502, 384, MEMORY_SIZE - 10}

LoadCallProgram ==
    /\ last.op = "init"
    /\ \E base \in CallBases, sp \in Byte :
          \/ LoadTo(loadProgram(createHexProgram(CallBackProgram(base, sp)),
                                base, cpu, memory))
          \/ LoadTo(loadProgram(createHexProgram(CallAheadProgram(base, sp)),
                                base, cpu, memory))

NextCall == LoadCallProgram \/ Step

SpecCall == Init /\ [][NextCall]_vars

----------------------------------------------------------------------------
(* Indirect jumps: JMP (pointer) followed by a pattern, for every pointer   *)
(* into the page the image starts in.  The bases put the image across a     *)
(* page boundary, at the bottom of memory and at the top of memory.         *)
IndirectLength == 24

PageFill(i) == (i * 7 + 3) % 256

IndirectProgram(base, low) ==
    [i \in 1..IndirectLength |->
        CASE i = 1 -> 108
          [] i = 2 -> low
          [] i = 3 -> base \div 256
          [] OTHER -> PageFill(i)]

IndirectBases == {0, 752, MEMORY_SIZE - IndirectLength}

LoadIndirectProgram ==
    /\ last.op = "init"
    /\ \E base \in IndirectBases, low \in Byte :
          LoadTo(loadProgram(createHexProgram(IndirectProgram(base, low)),
                             base, cpu, memory))

NextIndirect == LoadIndirectProgram \/ Step

SpecIndirect == Init /\ [][NextIndirect]_vars

----------------------------------------------------------------------------
(* Indexed addressing: the program stores a 16-bit base in a zero-page      *)
(* pointer, loads the same index into X and Y and runs one opcode of an     *)
(* indexed mode on that base (absolute modes) or on that pointer (zero-page *)
(* modes).  The pointer at 0xFF has its high byte at 0x00.                  *)
IndexedModes == {"ZPX", "ZPY", "ABSX", "ABSY", "IZX", "IZY"}

IndexedOpcodes ==
    { opCode \in Byte : isDefined(opCode)
        /\ getInstructionDefinition(opCode).addressingMode \in IndexedModes }

IndexedProgram(low, high, zp, index, opCode) ==
    <<169, low, 133, zp, 169, high, 133, (zp + 1) % 256, 162, index, 160, index, opCode>>
    \o (IF getInstructionDefinition(opCode).addressingMode \in {"ABSX", "ABSY"}
        THEN <<low, high>> ELSE <<zp>>)

LoadIndexedProgram ==
    /\ last.op = "init"
    /\ \E low \in {0, 128, 255}, high \in {3, 255}, zp \in {16, 255},
          index \in {0, 1, 128, 255}, opCode \in IndexedOpcodes :
          LoadTo(loadProgram(createHexProgram(IndexedProgram(low, high, zp, index, opCode)),
                             DEFAULT_PROGRAM_LOAD_ADDRESS, cpu, memory))

NextIndexed == LoadIndexedProgram \/ Step

SpecIndexed == Init /\ [][NextIndexed]_vars

----------------------------------------------------------------------------
(* Stack operations: LDX #sp, TXS, three PHA of distinct bytes, then one    *)
(* of PHA, PHP, JSR, BRK, PLA, PLP, RTS, RTI, for every sp.                 *)
StackProgram(sp, opCode) ==
    <<162, sp, 154, 169, 18, 72, 169, 52, 72, 169, 195, 72, opCode, 0, 3>>

LoadStackProgram ==
    /\ last.op = "init"
    /\ \E sp \in Byte, opCode \in {72, 8, 32, 0, 104, 40, 96, 64} :
          LoadTo(loadProgram(createHexProgram(StackProgram(sp, opCode)),
                             DEFAULT_PROGRAM_LOAD_ADDRESS, cpu, memory))

NextStack == LoadStackProgram \/ Step

SpecStack == Init /\ [][NextStack]_vars

----------------------------------------------------------------------------
(* Return from interrupt: LDX #sp, TXS, then the high byte 0x12, the low    *)
(* byte 0x34 and a status byte pushed with PHA, then RTI, for every status  *)
(* byte and for stack pointers that make the three pulls wrap at each       *)
(* position.                                                                *)
LoadInterruptProgram ==
    /\ last.op = "init"
    /\ \E sp \in {0, 1, 2, 3, 128, 255}, status \in Byte :
          LoadTo(loadProgram(
              createHexProgram(<<162, sp, 154, 169, 18, 72, 169, 52, 72, 169, status, 72, 64>>),
              DEFAULT_PROGRAM_LOAD_ADDRESS, cpu, memory))

NextInterrupt == LoadInterruptProgram \/ Step

SpecInterrupt == Init /\ [][NextInterrupt]_vars

----------------------------------------------------------------------------
(* Push then pull: LDX #sp, TXS, LDA #v, PHA, PLP (status and A from v),    *)
(* then PHP, PLP, PHA, PLA, for every sp with four values of v and for      *)
(* every v at the stack pointers next to the wrap.                          *)
LoadRoundTripProgram ==
    /\ last.op = "init"
    /\ \E sp \in Byte, v \in Byte :
          /\ sp \in {0, 1, 254, 255} \/ v \in {0, 85, 170, 255}
          /\ LoadTo(loadProgram(
                 createHexProgram(<<162, sp, 154, 169, v, 72, 40, 8, 40, 72, 104>>),
                 DEFAULT_PROGRAM_LOAD_ADDRESS, cpu, memory))

NextRoundTrip == LoadRoundTripProgram \/ Step

SpecRoundTrip == Init /\ [][NextRoundTrip]_vars

----------------------------------------------------------------------------
(* Hex texts: LDA #v followed by one more byte pair that is well formed, or *)
(* has a character outside 0-9, A-F, a-f in its first place, its second     *)
(* place or both.  Loads are requested in every state, also after steps.    *)
HexPairs == { <<"0", "0">>, <<"e", "A">>, <<"4", "G">>, <<"a", "z">>,
              <<"G", "4">>, <<"G", "G">>, <<"-", "1">> }

LoadHexText ==
    \E v \in {0, 1, 128, 255}, pair \in HexPairs :
        LoadTo(loadProgram(createHexProgram(<<169, v>>) \o <<" ">> \o pair,
                           DEFAULT_PROGRAM_LOAD_ADDRESS, cpu, memory))

NextHexText == LoadHexText \/ Step

SpecHexText == Init /\ [][NextHexText]_vars

----------------------------------------------------------------------------
(* Run mode.  The component mounts and loads the default program; the user  *)
(* clicks Run or Pause, Step, Reset and Load and moves the speed slider     *)
(* where the controls are enabled; a live interval fires; the renders and   *)
(* the effects that follow an interval callback happen in later tasks.      *)

SIMPLE_PROGRAM_HEX ==
    createHexProgram(<<169, 192, 162, 193, 160, 194, 133, 0, 134, 1, 132, 2, 76, 12, 2>>)

AppRecord(op) == Record(op, "none", 0, 0, FALSE, cpu)

Mount ==
    /\ ~app.mounted /\ last.op = "init"
    /\ LET r == loadProgram(SIMPLE_PROGRAM_HEX, DEFAULT_PROGRAM_LOAD_ADDRESS, cpu, memory)
       IN  /\ cpu' = r.cpu
           /\ memory' = r.memory
           /\ last' = [AppRecord("mount")
                       EXCEPT !.request = [hex |-> r.hexString, addr |-> r.loadAddr]]
           /\ before' = NoStep
           /\ app' = [initialApp EXCEPT !.mounted = TRUE, !.halted = r.cpu.halted]

(* The Run / Pause button, disabled while the render saw a halted processor. *)
HandleRunToggle ==
    /\ app.mounted /\ ~app.halted
    /\ app' = afterEvent(handleRun(app, ~app.isRunning), cpu)
    /\ last' = AppRecord(IF app.isRunning THEN "pause" ELSE "run")
    /\ before' = NoStep
    /\ UNCHANGED <<cpu, memory>>

(* The speed slider, disabled while running. *)
HandleSetRunSpeed ==
    /\ app.mounted /\ ~app.isRunning
    /\ \E speed \in {1, 100} :
          app' = afterEvent([app EXCEPT !.nextSpeed = speed], cpu)
    /\ last' = AppRecord("speed")
    /\ before' = NoStep
    /\ UNCHANGED <<cpu, memory>>

(* The Step button, disabled while running or halted. *)
HandleStep ==
    /\ app.mounted /\ ~app.isRunning /\ ~app.halted
    /\ cpu.cycles < MaxCycles
    /\ LET r == step(cpu, memory)
       IN  /\ cpu' = r.cpu
           /\ memory' = r.memory
           /\ last' = Record("step", r.outcome, r.opCode, r.address, r.pageCrossed, cpu)
           /\ app' = afterEvent(hookUpdated(app, TRUE), r.cpu)
    /\ before' = IF last.op = "step" THEN last ELSE NoStep

HandleReset ==
    /\ app.mounted
    /\ cpu' = resetCPU(Undefined, memory)
    /\ app' = afterEvent(hookUpdated(IF app.isRunning THEN handleRun(app, FALSE) ELSE app,
                                     FALSE), cpu')
    /\ last' = AppRecord("reset")
    /\ before' = NoStep
    /\ UNCHANGED memory

HandleLoadProgram ==
    /\ app.mounted
    /\ \E hex \in {SIMPLE_PROGRAM_HEX, createHexProgram(<<234, 255>>), <<"G", "4">>} :
          LET r == loadProgram(hex, DEFAULT_PROGRAM_LOAD_ADDRESS, cpu, memory)
          IN  /\ cpu' = r.cpu
              /\ memory' = r.memory
              /\ last' = [AppRecord("load")
                          EXCEPT !.outcome = IF r.accepted THEN "accepted" ELSE "rejected",
                                 !.request = [hex |-> r.hexString, addr |-> r.loadAddr]]
              /\ app' = afterEvent(
                     hookUpdated(IF app.isRunning THEN handleRun(app, FALSE) ELSE app,
                                 r.accepted), r.cpu)
    /\ before' = NoStep

(* A live interval fires: its callback calls step(). *)
Tick ==
    /\ \E id \in app.timers : cpu.halted \/ cpu.cycles < MaxCycles
    /\ LET r == step(cpu, memory)
       IN  /\ cpu' = r.cpu
           /\ memory' = r.memory
           /\ last' = Record("tick", r.outcome, r.opCode, r.address, r.pageCrossed, cpu)
    /\ before' = NoStep
    /\ app' = hookUpdated(app, TRUE)

Render ==
    /\ app.mounted /\ NeedsRender(app)
    /\ app' = render(app, cpu)
    /\ UNCHANGED <<cpu, memory, last, before>>

Effects ==
    /\ app.mounted /\ app.effects
    /\ app' = flushEffects(app)
    /\ UNCHANGED <<cpu, memory, last, before>>

(* Unmount: the effects still pending run, then the cleanup of 83-89. *)
Unmount ==
    /\ app.mounted
    /\ LET a == flushEffects(app)
       IN  app' = [(IF a.runIntervalRef # Null THEN clearInterval(a, a.runIntervalRef)
                                               ELSE a)
                   EXCEPT !.mounted = FALSE]
    /\ last' = AppRecord("unmount")
    /\ before' = NoStep
    /\ UNCHANGED <<cpu, memory>>

NextRun ==
    \/ Mount \/ HandleRunToggle \/ HandleSetRunSpeed \/ HandleStep \/ HandleReset
    \/ HandleLoadProgram \/ Tick \/ Render \/ Effects \/ Unmount

SpecRun == Init /\ [][NextRun]_vars

(* A render that is needed happens, and the effects of a render run. *)
SpecRunFair == SpecRun /\ WF_vars(Render) /\ WF_vars(Effects)

----------------------------------------------------------------------------
(* A register against an operand: LDA #r, TAX, TAY, CMP #v, BIT on the     *)
(* cell that holds v (the operand byte of the CMP), CPX #v, CPY #v, EOR #v, *)
(* ORA #v, TXA, AND #v, for every r and v.  A shift or rotate of one value: *)
(* CLC or SEC, LDA #v, STA $10, then the opcode (on A or on $10), for every *)
(* v, carry and shift opcode.  One load, store, increment, decrement,       *)
(* transfer or pull: X = SP = r + 1, Y = r + 2, cell $10 and the pushed     *)
(* byte = r + 3, A = r, Zero and Negative set by CMP #r or CMP #(r + 128),  *)
(* then the opcode, for every r.                                            *)
AluProgram(r, v, low, high) ==
    <<169, r, 170, 168, 201, v, 44, low, high, 224, v, 192, v,
      73, v, 9, v, 138, 41, v>>

UnaryProgram(r, flip, opCode) ==
    <<162, (r + 1) % 256, 154, 160, (r + 2) % 256, 169, (r + 3) % 256, 133, 16, 72,
      169, r, 201, (r + flip) % 256>> \o Instruction(opCode, 16, 0)

ShiftProgram(carry, v, opCode) ==
    <<IF carry = 1 THEN 56 ELSE 24, 169, v, 133, 16>> \o Instruction(opCode, 16, 0)

LoadAluProgram ==
    /\ last.op = "init"
    /\ \/ \E r \in Byte, v \in Byte :
             LoadTo(loadProgram(
                 createHexProgram(AluProgram(r, v, (DEFAULT_PROGRAM_LOAD_ADDRESS + 5) % 256,
                                             (DEFAULT_PROGRAM_LOAD_ADDRESS + 5) \div 256)),
                 DEFAULT_PROGRAM_LOAD_ADDRESS, cpu, memory))
       \/ \E carry \in {0, 1}, v \in Byte, opCode \in {10, 6, 74, 70, 42, 38, 106, 102} :
             LoadTo(loadProgram(createHexProgram(ShiftProgram(carry, v, opCode)),
                                DEFAULT_PROGRAM_LOAD_ADDRESS, cpu, memory))
       \/ \E r \in Byte, flip \in {0, 128},
             opCode \in {165, 166, 164, 133, 134, 132, 230, 198, 232, 200, 202, 136,
                         170, 138, 168, 152, 186, 104} :
             LoadTo(loadProgram(createHexProgram(UnaryProgram(r, flip, opCode)),
                                DEFAULT_PROGRAM_LOAD_ADDRESS, cpu, memory))

NextAlu == LoadAluProgram \/ Step

SpecAlu == Init /\ [][NextAlu]_vars

----------------------------------------------------------------------------
(* Arithmetic with the Decimal flag set: SED, LDA #a, ADC #m, SBC #m, for   *)
(* every a and m (the ADC starts with carry clear, the SBC with the carry   *)
(* the ADC left), next to the one-instruction programs of every opcode,     *)
(* which run ADC and SBC with Decimal and Carry both set.                   *)
DecimalProgram(a, m) == <<248, 169, a, 105, m, 233, m>>

LoadDecimalProgram ==
    /\ last.op = "init"
    /\ \E a \in Byte, m \in Byte :
          LoadTo(loadProgram(createHexProgram(DecimalProgram(a, m)),
                             DEFAULT_PROGRAM_LOAD_ADDRESS, cpu, memory))

NextDecimal == LoadDecimalProgram \/ LoadOpcodeProgram \/ Step

SpecDecimal == Init /\ [][NextDecimal]_vars

----------------------------------------------------------------------------
(* The monitor operations next to load and step: disassemble, readMemoryByte *)
(* and writeMemoryByte, called in any order on programs that hold one-,     *)
(* two- and three-byte instructions and an unknown opcode, some of them     *)
(* ending at the last byte of memory.                                       *)
AccessRecord(op, threw, argument, count, value, result) ==
    [op |-> op, outcome |-> IF threw THEN "threw" ELSE "returned", opCode |-> 0,
     address |-> 0, pageCrossed |-> FALSE, cpu |-> cpu, request |-> NoRequest,
     argument |-> argument, count |-> count, value |-> value, result |-> result]

MaxCount == 3

Disassemble_MovesPC ==
    \E startAddress \in {0, 512, 513, 65534, 65535}, count \in 0..MaxCount :
        LET r == disassemble(startAddress, count, memory)
        IN  /\ last' = AccessRecord("disassemble", r.threw, startAddress, count, 0,
                                    r.disassembly)
            /\ before' = NoStep
            /\ cpu' = [cpu EXCEPT !.PC = r.currentAddress % MEMORY_SIZE]
            /\ UNCHANGED <<memory, app>>
Disassemble ==
    \E startAddress \in {0, 512, 513, 65534, 65535}, count \in 0..MaxCount :
        LET r == disassemble(startAddress, count, memory)
        IN  /\ last' = AccessRecord("disassemble", r.threw, startAddress, count, 0,
                                    r.disassembly)
            /\ before' = NoStep
            /\ UNCHANGED <<cpu, memory, app>>

AccessAddresses == {Number(-1), Number(0), Number(65535), Number(MEMORY_SIZE + 513)}

ReadMemoryByte ==
    \E address \in AccessAddresses :
        /\ last' = AccessRecord("read", readMemoryByte(address, memory).threw,
                                address, 0, 0, readMemoryByte(address, memory).value)
        /\ before' = NoStep
        /\ UNCHANGED <<cpu, memory, app>>

WriteMemoryByte ==
    \E address \in AccessAddresses,
       value \in {Number(-1), Number(0), Number(255), Number(256), NaN} :
        /\ memory' = writeMemoryByte(address, value, memory).memory
        /\ last' = AccessRecord("write", writeMemoryByte(address, value, memory).threw,
                                address, 0, value, 0)
        /\ before' = NoStep
        /\ UNCHANGED <<cpu, app>>

LoadMonitorProgram ==
    /\ last.op = "init"
    /\ LoadFrom({ Request(<<169, 1, 141, 0, 2, 255, 208, 254>>, DEFAULT_PROGRAM_LOAD_ADDRESS),
                  Request(<<169>>, 65535),
                  Request(<<208>>, 65535),
                  Request(<<141, 52>>, 65534),
                  Request(<<234>>, 65535) })

NextMonitor ==
    LoadMonitorProgram \/ Step \/ Disassemble \/ ReadMemoryByte \/ WriteMemoryByte

SpecMonitor == Init /\ [][NextMonitor]_vars

----------------------------------------------------------------------------
(* Properties *)

Executed == last.op = "step" /\ last.outcome = "executed"

(* C1: in every state reached by loading a program and stepping, A, X, Y,  *)
(* SP and the status register are in 0..255, PC is in 0..65535 and every    *)
(* memory cell is a byte at an address in 0..65535.                         *)
C1_MaskingInvariant ==
    /\ cpu.A \in Byte /\ cpu.X \in Byte /\ cpu.Y \in Byte
    /\ cpu.SP \in Byte /\ cpu.P \in Byte
    /\ cpu.PC \in Word
    /\ \A a \in DOMAIN memory : a \in Word /\ memory[a] \in Byte

(* INX at 0xFFFF with X = 0xFF: both X and PC wrapped to 0. *)
C1_Witness ==
    /\ Executed /\ last.opCode = 232
    /\ last.cpu.X = 255 /\ cpu.X = 0
    /\ last.cpu.PC = 65535 /\ cpu.PC = 0

(* C3: a step that fetches an opcode with no table entry sets halted and    *)
(* changes nothing else: PC still holds the address of that opcode, and A,  *)
(* X, Y, SP, the status register, the cycle counter and memory are as       *)
(* before.                                                                  *)
C3_UnknownOpcodeHalts ==
    [][(last'.op = "step" /\ ~cpu.halted /\ ~isDefined(MemGet(memory, cpu.PC)))
        => (cpu' = [cpu EXCEPT !.halted = TRUE] /\ memory' = memory)]_vars

(* Opcode 0xFF was fetched after the prologue had run. *)
C3_Witness ==
    /\ last.op = "step" /\ last.outcome = "unknown" /\ last.opCode = 255
    /\ last.cpu.cycles > 0 /\ ~last.cpu.halted
    /\ cpu.halted /\ cpu.PC = last.cpu.PC

(* C4: a step on a halted processor changes neither the processor state nor *)
(* memory, and halted is cleared only by reset or by a program load.        *)
C4_HaltedIsTerminal ==
    [][cpu.halted =>
        /\ last'.op = "step" => (cpu' = cpu /\ memory' = memory)
        /\ ~cpu'.halted => last'.op \in {"reset", "load"}]_vars

(* A step was taken on a processor that BRK had halted. *)
C4_Witness ==
    /\ last.op = "step" /\ last.outcome = "halted" /\ cpu.halted
    /\ before.op = "step" /\ before.outcome = "executed" /\ before.opCode = 0

(* C5: the unused status bit (bit 5) is 1 in every state reached by loading *)
(* a program and stepping, whatever byte PLP or RTI pulls.                  *)
C5_UnusedBitSet == BitAnd(cpu.P, FlagU) = FlagU

(* PLP pulled the byte 0x00. *)
C5_Witness ==
    /\ Executed /\ last.opCode = 40
    /\ MemGet(memory, STACK_BASE + cpu.SP) = 0
    /\ cpu.P = FlagU

(* The condition each branch opcode tests, read from the status register p. *)
BranchCondition(opCode, p) ==
    CASE opCode = 16  -> BitAnd(p, FlagN) = 0
      [] opCode = 48  -> BitAnd(p, FlagN) # 0
      [] opCode = 80  -> BitAnd(p, FlagV) = 0
      [] opCode = 112 -> BitAnd(p, FlagV) # 0
      [] opCode = 144 -> BitAnd(p, FlagC) = 0
      [] opCode = 176 -> BitAnd(p, FlagC) # 0
      [] opCode = 208 -> BitAnd(p, FlagZ) = 0
      [] opCode = 240 -> BitAnd(p, FlagZ) # 0

Signed(byte) == IF byte > 127 THEN byte - 256 ELSE byte

BranchExecuted == Executed /\ last.opCode \in BranchOpcodes

BranchTaken == BranchExecuted /\ BranchCondition(last.opCode, last.cpu.P)

AfterOperand == (last.cpu.PC + 2) % MEMORY_SIZE

(* C2: after a step that executes a conditional branch whose condition      *)
(* holds, PC is the address of the byte following the operand plus the      *)
(* operand byte taken as a signed 8-bit offset, modulo 65536.               *)
C2_BranchTarget ==
    BranchTaken =>
        cpu.PC = (AfterOperand
                  + Signed(MemGet(memory, (last.cpu.PC + 1) % MEMORY_SIZE))) % MEMORY_SIZE

ReferenceSum == last.cpu.A + MemGet(memory, last.address) + BitAnd(last.cpu.P, FlagC)

ReferenceSignedSum ==
    Signed(last.cpu.A) + Signed(MemGet(memory, last.address)) + BitAnd(last.cpu.P, FlagC)

(* C6: after ADC #M with accumulator A and incoming carry c, the new A is   *)
(* (A+M+c) mod 256, Carry is set exactly when A+M+c > 255, Overflow exactly *)
(* when signed(A) + signed(M) + c is outside -128..127, Zero exactly when   *)
(* the new A is 0 and Negative exactly when bit 7 of the new A is 1.        *)
C6_AdcReferenceAdder ==
    (Executed /\ last.opCode = 105) =>
        /\ cpu.A = ReferenceSum % 256
        /\ (BitAnd(cpu.P, FlagC) # 0) <=> (ReferenceSum > 255)
        /\ (BitAnd(cpu.P, FlagV) # 0) <=> (ReferenceSignedSum \notin -128..127)
        /\ (BitAnd(cpu.P, FlagZ) # 0) <=> (cpu.A = 0)
        /\ (BitAnd(cpu.P, FlagN) # 0) <=> (cpu.A >= 128)

(* 0x7F + 0x01 with carry clear: 0x80, Overflow and Negative set, Carry     *)
(* clear.                                                                   *)
C6_Witness ==
    /\ Executed /\ last.opCode = 105
    /\ last.cpu.A = 127 /\ MemGet(memory, last.address) = 1
    /\ BitAnd(last.cpu.P, FlagC) = 0
    /\ cpu.A = 128
    /\ BitAnd(cpu.P, FlagV) # 0 /\ BitAnd(cpu.P, FlagN) # 0 /\ BitAnd(cpu.P, FlagC) = 0

Borrow == 1 - BitAnd(last.cpu.P, FlagC)

ReferenceDifference == last.cpu.A - MemGet(memory, last.address) - Borrow

ReferenceSignedDifference ==
    Signed(last.cpu.A) - Signed(MemGet(memory, last.address)) - Borrow

AdcOfComplement ==
    ADC(last.cpu,
        MemSet(memory, last.address, BitXor(MemGet(memory, last.address), 255)),
        last.address).cpu

(* C7: after SBC #M with accumulator A and incoming carry c, A and the      *)
(* status register are what ADC of the bitwise complement of M gives: the   *)
(* new A is (A - M - (1-c)) mod 256, Carry is set exactly when              *)
(* A >= M + (1-c), and Overflow exactly when signed(A) - signed(M) - (1-c)  *)
(* is outside -128..127.                                                    *)
C7_SbcReferenceSubtractor ==
    (Executed /\ last.opCode = 233) =>
        /\ cpu.A = AdcOfComplement.A
        /\ cpu.P = AdcOfComplement.P
        /\ cpu.A = ReferenceDifference % 256
        /\ (BitAnd(cpu.P, FlagC) # 0) <=> (last.cpu.A >= MemGet(memory, last.address) + Borrow)
        /\ (BitAnd(cpu.P, FlagV) # 0) <=> (ReferenceSignedDifference \notin -128..127)

(* 0x80 - 0x01 with carry clear (a borrow): 0x7E, Overflow set, Carry set.  *)
C7_Witness ==
    /\ Executed /\ last.opCode = 233
    /\ last.cpu.A = 128 /\ MemGet(memory, last.address) = 1
    /\ BitAnd(last.cpu.P, FlagC) = 0
    /\ cpu.A = 126
    /\ BitAnd(cpu.P, FlagV) # 0 /\ BitAnd(cpu.P, FlagC) # 0

ReturnAddress(c) == (c.PC + 3) % MEMORY_SIZE

(* C8: a step that executes JSR leaves (address of the next instruction -   *)
(* 1) on the stack, high byte at the old SP and low byte below it, and      *)
(* lowers SP by 2 modulo 256; an RTS executed as the very next instruction  *)
(* sets PC to the address of the instruction following the JSR and SP to    *)
(* its value before the JSR.                                                *)
C8_CallReturnRoundTrip ==
    /\ (Executed /\ last.opCode = 32) =>
          /\ cpu.SP = (last.cpu.SP - 2) % 256
          /\ MemGet(memory, STACK_BASE + last.cpu.SP)
                = ((ReturnAddress(last.cpu) - 1) % MEMORY_SIZE) \div 256
          /\ MemGet(memory, STACK_BASE + ((last.cpu.SP - 1) % 256))
                = ((ReturnAddress(last.cpu) - 1) % MEMORY_SIZE) % 256
    /\ (Executed /\ last.opCode = 96
        /\ before.op = "step" /\ before.outcome = "executed" /\ before.opCode = 32) =>
          /\ cpu.PC = ReturnAddress(before.cpu)
          /\ cpu.SP = before.cpu.SP

(* JSR in the last three bytes of memory with SP = 0x01, then RTS: the      *)
(* return address wrapped to 0x0000 and SP wrapped through 0x00 and back.   *)
C8_Witness ==
    /\ Executed /\ last.opCode = 96
    /\ before.op = "step" /\ before.outcome = "executed" /\ before.opCode = 32
    /\ before.cpu.PC = MEMORY_SIZE - 3 /\ before.cpu.SP = 1
    /\ last.cpu.SP = 255
    /\ cpu.PC = 0 /\ cpu.SP = 1

Pointer == MemGet(memory, (last.cpu.PC + 1) % MEMORY_SIZE)
           + 256 * MemGet(memory, (last.cpu.PC + 2) % MEMORY_SIZE)

(* C9: JMP (p) goes to the address whose low byte is memory[p] and whose    *)
(* high byte is memory[(p & 0xFF00) | ((p + 1) & 0xFF)]: the high byte of a *)
(* pointer ending in 0xFF comes from the start of the pointer's own page.   *)
C9_IndirectPageWrap ==
    (Executed /\ last.opCode = 108) =>
        /\ cpu.PC = MemGet(memory, Pointer)
                    + 256 * MemGet(memory, BitOr(BitAnd(Pointer, 65280),
                                                 BitAnd(Pointer + 1, 255)))
        /\ last.address = cpu.PC

(* A pointer ending in 0xFF whose own page starts with 0 while the next     *)
(* page starts with a non-zero byte.                                        *)
C9_Witness ==
    /\ Executed /\ last.opCode = 108
    /\ Pointer % 256 = 255
    /\ MemGet(memory, Pointer) # 0
    /\ MemGet(memory, Pointer - 255) = 0
    /\ MemGet(memory, Pointer + 1) # 0
    /\ cpu.PC = MemGet(memory, Pointer)

PageOf(address) == address \div 256

StepExecuted == last'.op = "step" /\ last'.outcome = "executed"

OperandAt(n) == MemGet(memory, (cpu.PC + n) % MEMORY_SIZE)

IndexedBase(mode) ==
    IF mode = "IZY"
    THEN MemGet(memory, OperandAt(1)) + 256 * MemGet(memory, (OperandAt(1) + 1) % 256)
    ELSE OperandAt(1) + 256 * OperandAt(2)

IndexedEffective(mode) ==
    (IndexedBase(mode) + (IF mode = "ABSX" THEN cpu.X ELSE cpu.Y)) % MEMORY_SIZE

IndexedCrossed(mode) == PageOf(IndexedEffective(mode)) # PageOf(IndexedBase(mode))

IndexedCycles(instructionDef) ==
    instructionDef.baseCycles
    + (IF instructionDef.pageCrossCycle /\ IndexedCrossed(instructionDef.addressingMode)
       THEN 1 ELSE 0)

PageCrossModes == {"ABSX", "ABSY", "IZY"}

IndexedWriters == {"STA", "INC", "DEC", "ASL", "LSR", "ROL", "ROR"}

IndexedStepCorrect(instructionDef) ==
    /\ last'.address = IndexedEffective(instructionDef.addressingMode)
    /\ last'.pageCrossed = IndexedCrossed(instructionDef.addressingMode)
    /\ cpu'.cycles = cpu.cycles + IndexedCycles(instructionDef)
    /\ instructionDef.mnemonic \in IndexedWriters
          => cpu'.cycles = cpu.cycles + instructionDef.baseCycles

(* C11: a step that executes an Absolute,X, Absolute,Y or (zp),Y opcode     *)
(* resolves the address (base + index) mod 65536, reports a page cross      *)
(* exactly when its high byte differs from the base's, and adds the         *)
(* opcode's base cycles plus one exactly when the opcode carries the        *)
(* page-cross flag and a page was crossed; stores and read-modify-write     *)
(* opcodes add their base cycles only.                                      *)
C11_IndexedAddressingCycles ==
    [][(StepExecuted /\ last'.opCode \in IndexedOpcodes
        /\ getInstructionDefinition(last'.opCode).addressingMode \in PageCrossModes)
        => IndexedStepCorrect(getInstructionDefinition(last'.opCode))]_vars

(* LDA (zp),Y with base 0xFFFF and Y = 0xFF: address 0x00FE, page crossed,  *)
(* 6 cycles.                                                                *)
C11_Witness ==
    /\ Executed /\ last.opCode = 177
    /\ last.cpu.Y = 255 /\ last.address = 254 /\ last.pageCrossed
    /\ cpu.cycles - last.cpu.cycles = 6

ZeroPageCell(mode) ==
    (OperandAt(1) + (IF mode \in {"ZPX", "IZX"} THEN cpu.X
                     ELSE IF mode = "ZPY" THEN cpu.Y ELSE 0)) % 256

ZeroPagePointer(mode) ==
    MemGet(memory, ZeroPageCell(mode)) + 256 * MemGet(memory, (ZeroPageCell(mode) + 1) % 256)

ZeroPageStepCorrect(mode) ==
    CASE mode \in {"ZPX", "ZPY"} ->
            last'.address = ZeroPageCell(mode) /\ last'.address \in Byte
      [] mode = "IZX" -> last'.address = ZeroPagePointer(mode)
      [] mode = "IZY" -> last'.address = (ZeroPagePointer(mode) + cpu.Y) % MEMORY_SIZE
      [] OTHER -> TRUE

(* C12: a step that executes a Zero Page,X or Zero Page,Y opcode resolves   *)
(* the address (operand + index) mod 256; a step that executes a (zp,X) or  *)
(* (zp),Y opcode takes the pointer's low byte from the zero-page cell and   *)
(* its high byte from the cell at (cell + 1) mod 256.                       *)
C12_ZeroPageConfinement ==
    [][(StepExecuted /\ last'.opCode \in IndexedOpcodes)
        => ZeroPageStepCorrect(getInstructionDefinition(last'.opCode).addressingMode)]_vars

(* LDA (zp,X) through the pointer at 0xFF: the high byte came from 0x00 and *)
(* the stack page cell 0x0100 holds something else.                         *)
C12_Witness ==
    /\ Executed /\ last.opCode = 161
    /\ (MemGet(memory, (last.cpu.PC + 1) % MEMORY_SIZE) + last.cpu.X) % 256 = 255
    /\ last.address = MemGet(memory, 255) + 256 * MemGet(memory, 0)
    /\ MemGet(memory, 0) # MemGet(memory, 256)

StackCell(n) == STACK_BASE + ((cpu.SP + n) % 256)

StepFetches(opCode) ==
    last'.op = "step" /\ ~cpu.halted /\ MemGet(memory, cpu.PC) = opCode

(* C13: a step that executes BRK at address a on a running processor ends   *)
(* with PC = (a + 2) mod 65536, the word (a + 2) on the stack high byte     *)
(* first, then the status byte with Break and unused set, SP lowered by 3   *)
(* mod 256, InterruptDisable set, halted set and 7 more cycles.             *)
C13_BreakInstruction ==
    [][StepFetches(0) =>
        /\ cpu'.PC = (cpu.PC + 2) % MEMORY_SIZE
        /\ MemGet(memory', StackCell(0)) = ((cpu.PC + 2) % MEMORY_SIZE) \div 256
        /\ MemGet(memory', StackCell(-1)) = ((cpu.PC + 2) % MEMORY_SIZE) % 256
        /\ MemGet(memory', StackCell(-2)) = BitOr(cpu.P, BitOr(FlagB, FlagU))
        /\ cpu'.SP = (cpu.SP - 3) % 256
        /\ cpu'.P = BitOr(cpu.P, FlagI)
        /\ cpu'.halted
        /\ cpu'.cycles = cpu.cycles + 7]_vars

(* BRK at 0xFFFF with SP = 0x00: PC wrapped to 0x0001 and SP to 0xFD. *)
C13_Witness ==
    /\ Executed /\ last.opCode = 0
    /\ last.cpu.PC = 65535 /\ last.cpu.SP = 0
    /\ cpu.PC = 1 /\ cpu.SP = 253 /\ cpu.halted
    /\ MemGet(memory, STACK_BASE) = 0 /\ MemGet(memory, STACK_BASE + 255) = 1

PulledStatusCorrect(pulled) ==
    /\ BitAnd(cpu'.P, FlagB) = 0
    /\ BitAnd(cpu'.P, FlagU) = FlagU
    /\ BitAnd(cpu'.P, 255 - FlagB - FlagU) = BitAnd(pulled, 255 - FlagB - FlagU)

PushedStatusCorrect(pushed) == BitAnd(pushed, FlagB + FlagU) = FlagB + FlagU

(* C14: the byte PHP and BRK write to the stack has Break and unused set;   *)
(* after PLP or RTI the status register has Break clear, unused set and its *)
(* other six bits equal to the pulled byte's.                               *)
C14_StatusPushPull ==
    [][/\ StepFetches(8) => PushedStatusCorrect(MemGet(memory', StackCell(0)))
       /\ StepFetches(0) => PushedStatusCorrect(MemGet(memory', StackCell(-2)))
       /\ StepFetches(40) => PulledStatusCorrect(MemGet(memory, StackCell(1)))
       /\ StepFetches(64) => PulledStatusCorrect(MemGet(memory, StackCell(1)))]_vars

(* PHP pushed 0x30 for the live status 0x20 that the preceding PLP left.    *)
C14_Witness ==
    /\ Executed /\ last.opCode = 8 /\ last.cpu.P = FlagU
    /\ MemGet(memory, STACK_BASE + last.cpu.SP) = FlagB + FlagU
    /\ before.op = "step" /\ before.outcome = "executed" /\ before.opCode = 40

WrittenCells == { a \in DOMAIN memory \cup DOMAIN memory' : MemGet(memory', a) # MemGet(memory, a) }

PushCorrect(n) ==
    /\ WrittenCells \subseteq { StackCell(-i) : i \in 0..(n - 1) }
    /\ cpu'.SP = (cpu.SP - n) % 256

PullCorrect(n) ==
    /\ memory' = memory
    /\ cpu'.SP = (cpu.SP + n) % 256

StackWord(n) == MemGet(memory, StackCell(n)) + 256 * MemGet(memory, StackCell(n + 1))

(* C15: PHA, PHP, JSR and BRK write only the cells 0x0100 + SP,             *)
(* 0x0100 + (SP - 1) mod 256, ... of the bytes they push and lower SP by    *)
(* that many mod 256; PLA, PLP, RTS and RTI write nothing, raise SP by the  *)
(* number of bytes they pull mod 256 and take them from 0x0100 + (SP + 1)   *)
(* mod 256 onward.                                                          *)
C15_StackPageSafety ==
    [][/\ StepFetches(72) => PushCorrect(1) /\ MemGet(memory', StackCell(0)) = cpu.A
       /\ StepFetches(8) => PushCorrect(1)
       /\ StepFetches(32) => PushCorrect(2)
       /\ StepFetches(0) => PushCorrect(3)
       /\ StepFetches(104) => PullCorrect(1) /\ cpu'.A = MemGet(memory, StackCell(1))
       /\ StepFetches(40) => PullCorrect(1) /\ PulledStatusCorrect(MemGet(memory, StackCell(1)))
       /\ StepFetches(96) => PullCorrect(2) /\ cpu'.PC = (StackWord(1) + 1) % MEMORY_SIZE
       /\ StepFetches(64) => PullCorrect(3) /\ cpu'.PC = StackWord(2)
                             /\ PulledStatusCorrect(MemGet(memory, StackCell(1)))]_vars

(* RTI with SP = 0xFE: the status came from 0x01FF and PC from 0x0100 and   *)
(* 0x0101.                                                                  *)
C15_Witness ==
    /\ Executed /\ last.opCode = 64
    /\ last.cpu.SP = 254 /\ cpu.SP = 1
    /\ MemGet(memory, STACK_BASE + 255) = 195 /\ cpu.P = 227
    /\ cpu.PC = 4660
    /\ MemGet(memory, STACK_BASE) = 52 /\ MemGet(memory, STACK_BASE + 1) = 18

ResetState(pc) ==
    [A |-> 0, X |-> 0, Y |-> 0, PC |-> pc, SP |-> 253, P |-> FlagI + FlagU,
     cycles |-> 0, halted |-> FALSE]

ResetVector == MemGet(memory, RESET_VECTOR_ADDRESS) + 256 * MemGet(memory, RESET_VECTOR_ADDRESS + 1)

(* C16: a reset without an override leaves PC = memory[0xFFFC] +            *)
(* 256 * memory[0xFFFD], A = X = Y = 0, SP = 0xFD, the status register      *)
(* InterruptDisable | unused, cycles = 0 and halted = false, whatever the   *)
(* state before, and leaves memory unchanged.                               *)
C16_ResetDefault ==
    [][(last'.op = "reset" /\ last'.outcome = "default")
        => (cpu' = ResetState(ResetVector) /\ memory' = memory)]_vars

(* A reset after the BRK at 0xFFFC had halted the processor, with the       *)
(* vector holding 0x8000.                                                   *)
C16_Witness ==
    /\ last.op = "reset" /\ last.outcome = "default"
    /\ cpu.PC = 32768 /\ ~cpu.halted /\ cpu.cycles = 0
    /\ MemGet(memory, STACK_BASE + 253) = 255

(* C17: a reset with an override address leaves PC equal to the override,   *)
(* for every override in 0..65535 including 0, whatever the reset vector    *)
(* holds.                                                                   *)
C17_ResetOverride ==
    (last.op = "reset" /\ last.outcome = "override") => cpu.PC = last.address

RequestText(request) == SelectSeq(request.hex, LAMBDA ch : ch # " ")

RequestLength(request) == Len(RequestText(request)) \div 2

RequestByte(request, i) ==
    16 * HexDigitValue[RequestText(request)[2 * i - 1]]
    + HexDigitValue[RequestText(request)[2 * i]]

RequestImage(request) ==
    [a \in { request.addr + i - 1 : i \in { j \in 1..RequestLength(request) :
                                             RequestByte(request, j) # 0 } }
        |-> RequestByte(request, a - request.addr + 1)]

LoadAccepted == last.op = "load" /\ last.outcome = "accepted"

(* C18: after a successful loadProgram of n bytes at L, memory[L + i] is    *)
(* the i-th program byte, every other cell is 0, and the processor is in    *)
(* the reset state with PC = L, SP = 0xFD, cycles = 0 and halted = false.   *)
C18_LoadProgram ==
    LoadAccepted =>
        /\ memory = RequestImage(last.request)
        /\ cpu = ResetState(last.request.addr)

Rejectable(request) ==
    \/ RequestLength(request) = 0
    \/ Len(RequestText(request)) % 2 = 1
    \/ request.addr \notin Word
    \/ request.addr + RequestLength(request) > MEMORY_SIZE

(* C19: a loadProgram whose text is empty after whitespace removal, has an  *)
(* odd number of characters, whose load address is outside 0..65535 or      *)
(* whose bytes would extend past 0xFFFF is rejected and leaves the          *)
(* processor state and every memory cell unchanged.                         *)
C19_LoadRejection ==
    [][(last'.op = "load" /\ Rejectable(last'.request))
        => (last'.outcome = "rejected" /\ cpu' = cpu /\ memory' = memory)]_vars

(* Two bytes requested at 0xFFFF on a processor that had been stepping. *)
C19_Witness ==
    /\ last.op = "load" /\ last.outcome = "rejected"
    /\ last.request.addr = 65535 /\ RequestLength(last.request) = 2
    /\ cpu.cycles > 0 /\ memory # EmptyMemory

(* C20: no step lowers the cycle counter; a step on a halted processor or   *)
(* on an unknown opcode leaves it unchanged; an executed instruction raises *)
(* it by at least the opcode's base cost; it falls only to 0 and only by    *)
(* reset or program load.                                                   *)
C20_CyclesMonotonic ==
    [][/\ last'.op = "step" => cpu'.cycles >= cpu.cycles
       /\ (last'.op = "step" /\ last'.outcome \in {"halted", "unknown"})
             => cpu'.cycles = cpu.cycles
       /\ StepExecuted
             => cpu'.cycles >= cpu.cycles + getInstructionDefinition(last'.opCode).baseCycles
       /\ cpu'.cycles < cpu.cycles
             => (last'.op \in {"reset", "load"} /\ cpu'.cycles = 0)]_vars

(* A taken BNE raised the counter by more than its base cost of 2. *)
C20_Witness ==
    /\ Executed /\ last.opCode = 208
    /\ cpu.cycles > last.cpu.cycles + 2

HasFlag(p, flag) == BitAnd(p, flag) # 0

StepExecutes(names) ==
    StepExecuted /\ getInstructionDefinition(last'.opCode).execute \in names

OperandValue == MemGet(memory, last'.address)

CompareCorrect(register) ==
    /\ HasFlag(cpu'.P, FlagC) <=> register >= OperandValue
    /\ HasFlag(cpu'.P, FlagZ) <=> register = OperandValue
    /\ HasFlag(cpu'.P, FlagN) <=> ((register - OperandValue) % 256) >= 128
    /\ HasFlag(cpu'.P, FlagV) <=> HasFlag(cpu.P, FlagV)
    /\ cpu'.A = cpu.A /\ cpu'.X = cpu.X /\ cpu'.Y = cpu.Y
    /\ memory' = memory

(* C21: a step that executes CMP, CPX or CPY sets Carry exactly when the    *)
(* register (A, X or Y) is >= the operand, Zero exactly when they are       *)
(* equal and Negative to bit 7 of (register - operand) mod 256, and leaves  *)
(* A, X, Y, the Overflow flag and every memory cell as they were.           *)
C21_CompareFlags ==
    [][/\ StepExecutes({"CMP"}) => CompareCorrect(cpu.A)
       /\ StepExecutes({"CPX"}) => CompareCorrect(cpu.X)
       /\ StepExecutes({"CPY"}) => CompareCorrect(cpu.Y)]_vars

(* CPY of 0x10 against 0xD0 with Overflow set: no carry, not equal,         *)
(* difference 0x40 not negative, Overflow still set.                         *)
C21_Witness ==
    /\ Executed /\ last.opCode = 192
    /\ last.cpu.Y = 16 /\ MemGet(memory, last.address) = 208
    /\ ~HasFlag(cpu.P, FlagC) /\ ~HasFlag(cpu.P, FlagZ) /\ ~HasFlag(cpu.P, FlagN)
    /\ HasFlag(cpu.P, FlagV) /\ cpu.Y = 16

CarryIn == IF HasFlag(cpu.P, FlagC) THEN 1 ELSE 0

ShiftReference(mnemonic, value) ==
    CASE mnemonic = "ASL" -> [result |-> (2 * value) % 256, carry |-> value \div 128 = 1]
      [] mnemonic = "LSR" -> [result |-> value \div 2, carry |-> value % 2 = 1]
      [] mnemonic = "ROL" -> [result |-> (2 * value + CarryIn) % 256, carry |-> value \div 128 = 1]
      [] mnemonic = "ROR" -> [result |-> value \div 2 + 128 * CarryIn, carry |-> value % 2 = 1]

ShiftFlagsCorrect(reference) ==
    /\ HasFlag(cpu'.P, FlagC) <=> reference.carry
    /\ HasFlag(cpu'.P, FlagZ) <=> reference.result = 0
    /\ HasFlag(cpu'.P, FlagN) <=> reference.result >= 128

ShiftCorrect(instructionDef) ==
    IF instructionDef.addressingMode = "IMP"
    THEN /\ cpu'.A = ShiftReference(instructionDef.mnemonic, cpu.A).result
         /\ cpu'.A \in Byte
         /\ ShiftFlagsCorrect(ShiftReference(instructionDef.mnemonic, cpu.A))
         /\ memory' = memory
    ELSE /\ MemGet(memory', last'.address)
              = ShiftReference(instructionDef.mnemonic, OperandValue).result
         /\ MemGet(memory', last'.address) \in Byte
         /\ ShiftFlagsCorrect(ShiftReference(instructionDef.mnemonic, OperandValue))
         /\ cpu'.A = cpu.A

ShiftMnemonics == {"ASL", "LSR", "ROL", "ROR"}

(* C22: a step that executes ASL, LSR, ROL or ROR leaves in its target (A   *)
(* or the addressed cell) the input shifted by one bit, with bit 0 (left)   *)
(* or bit 7 (right) cleared by ASL/LSR and set to the carry held before the *)
(* step by ROL/ROR; Carry becomes the bit shifted out (bit 7 for left, bit  *)
(* 0 for right), Zero and Negative follow the result, the result is in      *)
(* 0..255, and the accumulator and memory forms compute the same function   *)
(* of the input and the incoming carry.                                     *)
C22_ShiftRotate ==
    [][(StepExecuted /\ getInstructionDefinition(last'.opCode).mnemonic \in ShiftMnemonics)
        => ShiftCorrect(getInstructionDefinition(last'.opCode))]_vars

(* ROR of the cell holding 0x01 with carry set: the cell becomes 0x80,      *)
(* Carry stays set from bit 0, Negative set.                                 *)
C22_Witness ==
    /\ Executed /\ last.opCode = 102
    /\ HasFlag(last.cpu.P, FlagC) /\ last.cpu.A = 1
    /\ MemGet(memory, last.address) = 128
    /\ HasFlag(cpu.P, FlagC) /\ HasFlag(cpu.P, FlagN) /\ ~HasFlag(cpu.P, FlagZ)

BitOf(n, i) == (n \div (2 ^ i)) % 2

(* C23: a step that executes BIT sets Zero exactly when A and the operand   *)
(* have no 1 bit in common, copies Negative from bit 7 and Overflow from    *)
(* bit 6 of the operand, and leaves A, Carry and every memory cell as they  *)
(* were.                                                                    *)
C23_BitTest ==
    [][StepExecutes({"BIT"}) =>
        /\ HasFlag(cpu'.P, FlagZ)
              <=> (\A i \in 0..7 : BitOf(cpu.A, i) = 0 \/ BitOf(OperandValue, i) = 0)
        /\ HasFlag(cpu'.P, FlagN) <=> BitOf(OperandValue, 7) = 1
        /\ HasFlag(cpu'.P, FlagV) <=> BitOf(OperandValue, 6) = 1
        /\ HasFlag(cpu'.P, FlagC) <=> HasFlag(cpu.P, FlagC)
        /\ cpu'.A = cpu.A
        /\ memory' = memory]_vars

(* BIT with A = 0x01 on a cell holding 0xC0: the AND is 0, so Zero is set,  *)
(* and Negative and Overflow are set from the operand although the AND has  *)
(* neither bit.                                                             *)
C23_Witness ==
    /\ Executed /\ last.opCode = 44
    /\ cpu.A = 1 /\ MemGet(memory, last.address) = 192
    /\ HasFlag(cpu.P, FlagZ) /\ HasFlag(cpu.P, FlagN) /\ HasFlag(cpu.P, FlagV)

ZNOperations ==
    {"LDA", "LDX", "LDY", "AND", "ORA", "EOR", "INC", "DEC", "INX", "INY", "DEX", "DEY",
     "TAX", "TXA", "TAY", "TYA", "TSX", "PLA"}

ZNExpected(exec) ==
    CASE exec \in {"LDA", "LDX", "LDY"} -> OperandValue
      [] exec = "AND" -> BitAnd(cpu.A, OperandValue)
      [] exec = "ORA" -> BitOr(cpu.A, OperandValue)
      [] exec = "EOR" -> BitXor(cpu.A, OperandValue)
      [] exec = "INC" -> (OperandValue + 1) % 256
      [] exec = "DEC" -> (OperandValue - 1) % 256
      [] exec = "INX" -> (cpu.X + 1) % 256
      [] exec = "INY" -> (cpu.Y + 1) % 256
      [] exec = "DEX" -> (cpu.X - 1) % 256
      [] exec = "DEY" -> (cpu.Y - 1) % 256
      [] exec \in {"TAX", "TAY"} -> cpu.A
      [] exec = "TXA" -> cpu.X
      [] exec = "TYA" -> cpu.Y
      [] exec = "TSX" -> cpu.SP
      [] exec = "PLA" -> MemGet(memory, StackCell(1))

ZNResult(exec) ==
    CASE exec \in {"LDA", "AND", "ORA", "EOR", "TXA", "TYA", "PLA"} -> cpu'.A
      [] exec \in {"LDX", "INX", "DEX", "TAX", "TSX"} -> cpu'.X
      [] exec \in {"LDY", "INY", "DEY", "TAY"} -> cpu'.Y
      [] exec \in {"INC", "DEC"} -> MemGet(memory', last'.address)

ZNCorrect(exec) ==
    /\ ZNResult(exec) = ZNExpected(exec)
    /\ HasFlag(cpu'.P, FlagZ) <=> ZNResult(exec) = 0
    /\ HasFlag(cpu'.P, FlagN) <=> ZNResult(exec) >= 128

StoreCorrect(register) ==
    /\ MemGet(memory', last'.address) = register
    /\ cpu'.P = cpu.P

(* C24: a step that executes a load, AND/ORA/EOR, an increment or decrement *)
(* (result taken modulo 256), a transfer into A, X or Y, or PLA leaves Zero *)
(* set exactly when the 8-bit result is 0 and Negative set exactly when the *)
(* result is 128 or more; a step that executes STA, STX or STY leaves the   *)
(* register's value in the addressed cell and the status register as it     *)
(* was.                                                                     *)
C24_ZeroNegative ==
    [][/\ StepExecutes(ZNOperations)
            => ZNCorrect(getInstructionDefinition(last'.opCode).execute)
       /\ StepExecutes({"STA"}) => StoreCorrect(cpu.A)
       /\ StepExecutes({"STX"}) => StoreCorrect(cpu.X)
       /\ StepExecutes({"STY"}) => StoreCorrect(cpu.Y)]_vars

(* DEC of a cell holding 0 while Zero was set and Negative clear: the cell  *)
(* wraps to 0xFF, Zero is cleared and Negative set.                         *)
C24_Witness ==
    /\ Executed /\ last.opCode = 198
    /\ HasFlag(last.cpu.P, FlagZ) /\ ~HasFlag(last.cpu.P, FlagN)
    /\ MemGet(memory, last.address) = 255
    /\ ~HasFlag(cpu.P, FlagZ) /\ HasFlag(cpu.P, FlagN)

DecimalToggled == [cpu EXCEPT !.P = BitXor(cpu.P, FlagD)]

SameArithmetic(other) ==
    /\ other.cpu.A = cpu'.A
    /\ \A flag \in {FlagC, FlagZ, FlagN, FlagV} :
          HasFlag(other.cpu.P, flag) <=> HasFlag(cpu'.P, flag)

(* C25: a step that executes ADC or SBC ends with the same A, Carry, Zero,  *)
(* Negative and Overflow as the same step taken from the state that differs *)
(* only in the Decimal flag; and the Decimal flag differs across a          *)
(* transition only when the step executes SED, CLD, PLP or RTI or the       *)
(* transition is a reset (alone or as part of a program load).              *)
C25_DecimalIgnored ==
    [][/\ StepExecutes({"ADC", "SBC"}) => SameArithmetic(step(DecimalToggled, memory))
       /\ (HasFlag(cpu'.P, FlagD) # HasFlag(cpu.P, FlagD))
             => (StepExecutes({"SED", "CLD", "PLP", "RTI"})
                 \/ last'.op \in {"reset", "load"})]_vars

(* ADC #$01 with A = 0x09, carry clear and Decimal set: A becomes 0x0A (a   *)
(* decimal adder would give 0x10) and Decimal is still set.                 *)
C25_Witness ==
    /\ Executed /\ last.opCode = 105
    /\ HasFlag(last.cpu.P, FlagD) /\ ~HasFlag(last.cpu.P, FlagC)
    /\ last.cpu.A = 9 /\ MemGet(memory, last.address) = 1
    /\ cpu.A = 10 /\ HasFlag(cpu.P, FlagD)

Disassembled == last'.op = "disassemble"

RecordsChained(records, startAddress) ==
    \A i \in DOMAIN records :
        /\ records[i].address = IF i = 1 THEN startAddress
                                ELSE records[i - 1].address + Len(records[i - 1].bytes)
        /\ ~isDefined(MemGet(memory, records[i].address))
              => (Len(records[i].bytes) = 1 /\ records[i].mnemonic = "???")

(* C27: a disassemble call with startAddress in 0..65535 and count >= 0     *)
(* returns without failing, with exactly count records, the first at        *)
(* startAddress, each following one at the previous address plus the        *)
(* previous record's byte length, and a one-byte data record for an opcode  *)
(* with no table entry.                                                     *)
C27_DisassembleCount ==
    [][Disassembled =>
        /\ last'.outcome = "returned"
        /\ Len(last'.result) = last'.count
        /\ RecordsChained(last'.result, last'.argument)]_vars

Written == last'.op = "write"

InByteRange(value) == ~value.nan /\ value.value \in Byte

OnlyCellChanged(a, v) ==
    /\ MemGet(memory', a) = v
    /\ \A x \in (DOMAIN memory \cup DOMAIN memory') \ {a} :
          MemGet(memory', x) = MemGet(memory, x)

(* C28: a writeMemoryByte call whose value is not in 0..255 is rejected and *)
(* leaves every memory cell as it was; a call with a value in 0..255 and an *)
(* address in 0..65535 sets that cell to the value and leaves every other   *)
(* cell and the processor state as they were.                               *)
C28_WriteMemoryByte ==
    [][Written =>
        /\ ~InByteRange(last'.value)
              => (last'.outcome = "threw" /\ memory' = memory)
        /\ (InByteRange(last'.value) /\ last'.argument.value \in Word)
              => (/\ last'.outcome = "returned"
                  /\ OnlyCellChanged(last'.argument.value, last'.value.value)
                  /\ cpu' = cpu)]_vars

(* C29: a readMemoryByte call with any integer address a returns the cell   *)
(* (a mod 65536), and a writeMemoryByte call with any integer address a and *)
(* a value in 0..255 sets the cell (a mod 65536) to the value; a may be     *)
(* 65536 or more, or negative.                                              *)
C29_AddressModulo ==
    [][/\ last'.op = "read"
            => (/\ last'.outcome = "returned"
                /\ last'.result = MemGet(memory, last'.argument.value % MEMORY_SIZE))
       /\ (Written /\ InByteRange(last'.value))
            => (/\ last'.outcome = "returned"
                /\ OnlyCellChanged(last'.argument.value % MEMORY_SIZE,
                                   last'.value.value))]_vars

(* C30: a step on a running processor ends halted only when the opcode at   *)
(* PC has no table entry or is BRK, and it ends either by executing the     *)
(* instruction or by reporting the unknown opcode, never with PC out of     *)
(* bounds or a fault, also when PC, an address, a register or the stack     *)
(* pointer wraps around.                                                    *)
C30_HaltingCauses ==
    [][(last'.op = "step" /\ ~cpu.halted) =>
        /\ cpu'.halted
              => (\/ ~isDefined(MemGet(memory, cpu.PC))
                  \/ getInstructionDefinition(MemGet(memory, cpu.PC)).mnemonic = "BRK")
        /\ last'.outcome \in {"executed", "unknown"}
        /\ last'.outcome = "unknown" <=> ~isDefined(MemGet(memory, cpu.PC))]_vars

(* PHA in the last byte of memory with SP = 0: PC wraps to 0, SP wraps to   *)
(* 0xFF, the byte lands at 0x0100 and the processor keeps running.          *)
C30_Witness ==
    /\ Executed /\ last.opCode = 72
    /\ last.cpu.PC = 65535 /\ last.cpu.SP = 0
    /\ cpu.PC = 0 /\ cpu.SP = 255 /\ MemGet(memory, STACK_BASE) = last.cpu.A
    /\ ~cpu.halted

ControlTransfers ==
    {"BEQ", "BNE", "BCS", "BCC", "BMI", "BPL", "BVS", "BVC", "JMP", "JSR", "RTS", "RTI", "BRK"}

NextListed(listing) ==
    (~listing.threw /\ Len(listing.disassembly) = 2)
        => listing.disassembly[2].address = cpu'.PC

(* C31: a step that executes a defined opcode other than a branch, JMP,     *)
(* JSR, RTS, RTI or BRK leaves PC at (PC + the descriptor's byte length)    *)
(* mod 65536; disassemble advances over the instruction by the same length, *)
(* so the address it lists after the instruction is the address the step    *)
(* reaches.                                                                 *)
C31_InstructionLength ==
    [][(StepExecuted /\ getInstructionDefinition(last'.opCode).mnemonic \notin ControlTransfers)
        => /\ cpu'.PC = (cpu.PC + getInstructionDefinition(last'.opCode).bytes) % MEMORY_SIZE
           /\ disassembleAt(memory, cpu.PC).length
                 = getInstructionDefinition(last'.opCode).bytes
           /\ NextListed(disassemble(cpu.PC, 2, memory))]_vars

(* STA absolute in the last three bytes of memory: PC goes from 0xFFFD to 0. *)
C31_Witness ==
    /\ Executed /\ last.opCode = 141
    /\ last.cpu.PC = 65533 /\ cpu.PC = 0
    /\ getInstructionDefinition(141).bytes = 3

(* C32: a step that executes RTI takes the status from the cell at SP + 1   *)
(* with Break cleared and unused set, the PC low byte from the cell at      *)
(* SP + 2 and the PC high byte from the cell at SP + 3 (each mod 256 within *)
(* the stack page), leaves SP raised by 3 mod 256, and sets PC to that word *)
(* with nothing added.                                                      *)
C32_ReturnFromInterrupt ==
    [][StepExecutes({"RTI"}) =>
        /\ \A i \in 0..7 :
              BitOf(cpu'.P, i) = IF i = 4 THEN 0
                                 ELSE IF i = 5 THEN 1
                                 ELSE BitOf(MemGet(memory, StackCell(1)), i)
        /\ cpu'.PC = MemGet(memory, StackCell(2)) + 256 * MemGet(memory, StackCell(3))
        /\ cpu'.SP = (cpu.SP + 3) % 256
        /\ cpu'.A = cpu.A /\ cpu'.X = cpu.X /\ cpu'.Y = cpu.Y
        /\ memory' = memory]_vars

(* RTI with SP = 0xFC after pushes made from SP = 0xFF: the status 0xDF     *)
(* comes back as 0xEF, PC is 0x1234 and SP is 0xFF again.                    *)
C32_Witness ==
    /\ Executed /\ last.opCode = 64
    /\ last.cpu.SP = 252 /\ cpu.SP = 255
    /\ MemGet(memory, STACK_BASE + 253) = 223
    /\ cpu.P = 239 /\ cpu.PC = 4660

NopOpcodes == {234, 26, 58, 90, 122, 218, 250, 128, 4}

RegistersKept ==
    /\ cpu'.A = cpu.A /\ cpu'.X = cpu.X /\ cpu'.Y = cpu.Y /\ cpu'.SP = cpu.SP

(* C33: a step that fetches NOP (0xEA) or one of 0x1A, 0x3A, 0x5A, 0x7A,    *)
(* 0xDA, 0xFA, 0x80, 0x04 on a running processor executes it and leaves A,  *)
(* X, Y, SP, the status register, halted and every memory cell as they      *)
(* were; only PC and the cycle counter move.                                *)
C33_NoOperation ==
    [][\A opCode \in NopOpcodes :
          StepFetches(opCode) =>
              /\ last'.outcome = "executed"
              /\ RegistersKept
              /\ cpu'.P = cpu.P
              /\ cpu'.halted = cpu.halted
              /\ memory' = memory
              /\ cpu'.PC # cpu.PC /\ cpu'.cycles > cpu.cycles]_vars

(* The two-byte NOP 0x04 with every register at 0xFF and status 0xEF: two   *)
(* bytes and three cycles later nothing else has changed.                   *)
C33_Witness ==
    /\ Executed /\ last.opCode = 4
    /\ last.cpu.A = 255 /\ last.cpu.P = 239
    /\ cpu = [last.cpu EXCEPT !.PC = (last.cpu.PC + 2) % MEMORY_SIZE,
                              !.cycles = last.cpu.cycles + 3]

FlagOperations ==
    { [execute |-> "CLC", bit |-> 0, to |-> 0], [execute |-> "SEC", bit |-> 0, to |-> 1],
      [execute |-> "CLI", bit |-> 2, to |-> 0], [execute |-> "SEI", bit |-> 2, to |-> 1],
      [execute |-> "CLD", bit |-> 3, to |-> 0], [execute |-> "SED", bit |-> 3, to |-> 1],
      [execute |-> "CLV", bit |-> 6, to |-> 0] }

(* C34: a step that executes CLC, SEC, CLI, SEI, CLD, SED or CLV leaves its *)
(* own status bit cleared or set and every other status bit, A, X, Y, SP    *)
(* and every memory cell as they were; a step that executes TXS leaves      *)
(* SP = X and the status register, A, X, Y and memory as they were.         *)
C34_FlagOperations ==
    [][/\ \A f \in FlagOperations :
            StepExecutes({f.execute}) =>
                /\ \A i \in 0..7 :
                      BitOf(cpu'.P, i) = IF i = f.bit THEN f.to ELSE BitOf(cpu.P, i)
                /\ RegistersKept
                /\ memory' = memory
       /\ StepExecutes({"TXS"}) =>
            /\ cpu'.SP = cpu.X
            /\ cpu'.P = cpu.P
            /\ cpu'.A = cpu.A /\ cpu'.X = cpu.X /\ cpu'.Y = cpu.Y
            /\ memory' = memory]_vars

(* CLV from status 0xEF leaves 0xAF; the registers are still 0xFF. *)
C34_Witness ==
    /\ Executed /\ last.opCode = 184
    /\ last.cpu.P = 239 /\ cpu.P = 175
    /\ cpu.A = 255 /\ cpu.X = 255 /\ cpu.Y = 255 /\ cpu.SP = 0

(* C35: in every state reached by loading a program and stepping, bit 4     *)
(* (Break) of the status register is 0, whatever bytes PLP and RTI pull and *)
(* also after BRK; only bytes stored on the stack carry the bit.            *)
C35_BreakNeverLive == BitOf(cpu.P, 4) = 0

(* After BRK from status 0xEF: the byte on the stack is 0xFF, with Break,   *)
(* and the status register is still 0xEF.                                   *)
C35_Witness ==
    /\ Executed /\ last.opCode = 0 /\ cpu.halted
    /\ last.cpu.P = 239 /\ cpu.P = 239
    /\ MemGet(memory, STACK_BASE + ((cpu.SP + 1) % 256)) = 255

Followed(first, second) ==
    /\ Executed /\ last.opCode = second
    /\ before.op = "step" /\ before.outcome = "executed" /\ before.opCode = first

(* C36: after PHP immediately followed by PLP the status register and SP    *)
(* equal their values before the PHP, and after PHA immediately followed by *)
(* PLA A and SP equal their values before the PHA, for every SP including   *)
(* those where the push or the pull wraps.                                  *)
C36_PushPullRoundTrip ==
    /\ Followed(8, 40) => (cpu.P = before.cpu.P /\ cpu.SP = before.cpu.SP)
    /\ Followed(72, 104) => (cpu.A = before.cpu.A /\ cpu.SP = before.cpu.SP)

(* PHP then PLP from SP = 0 with status 0xEF: the byte went to 0x0100 as    *)
(* 0xFF, SP wrapped to 0xFF and back, the status is 0xEF again.             *)
C36_Witness ==
    /\ Followed(8, 40)
    /\ before.cpu.SP = 0 /\ before.cpu.P = 239
    /\ MemGet(memory, STACK_BASE) = 255
    /\ cpu.SP = 0 /\ cpu.P = 239

InvalidHexText(request) ==
    \E i \in 1..Len(RequestText(request)) : ~IsHexDigit(RequestText(request)[i])

(* C39: a loadProgram whose text, after whitespace removal, contains a      *)
(* character other than 0-9, A-F or a-f is rejected and leaves memory and   *)
(* the processor state unchanged, whichever place of a byte pair the        *)
(* character is in.                                                         *)
C39_InvalidHexRejected ==
    [][(last'.op = "load" /\ InvalidHexText(last'.request))
        => (last'.outcome = "rejected" /\ cpu' = cpu /\ memory' = memory)]_vars

(* The run driver has stopped on a halted processor: the render has seen    *)
(* the halt, isRunning is false, no interval is live and no effect or state *)
(* update is outstanding.                                                   *)
RunStopped ==
    /\ app.mounted /\ cpu.halted /\ app.halted
    /\ ~app.isRunning /\ ~app.nextRunning
    /\ app.timers = {} /\ app.runIntervalRef = Null
    /\ ~app.effects

(* C37: when the processor halts while run mode is active the run driver    *)
(* stops: once the renders and effects have run, isRunning is false and the *)
(* interval is cleared; a halted processor in run mode always gets there    *)
(* unless the user resets or loads first; and once stopped no step can be   *)
(* invoked, by timer or by button, and the machine stays as it is until a   *)
(* reset or a load.                                                         *)
C37_HaltStopsRun ==
    /\ []((app.mounted /\ cpu.halted /\ ~app.effects /\ ~NeedsRender(app))
            => RunStopped)
    /\ (app.mounted /\ cpu.halted /\ app.isRunning)
          ~> (RunStopped \/ ~cpu.halted \/ ~app.mounted)
    /\ [](RunStopped => ~ENABLED (Tick \/ HandleStep))
    /\ [][RunStopped => \/ last'.op \in {"reset", "load"}
                        \/ UNCHANGED <<cpu, memory>> /\ last'.op \notin {"tick", "step"}
                           /\ (RunStopped' \/ ~app'.mounted)]_vars

(* The interval's step ran into the unknown opcode 0xFF while running; the  *)
(* halt effect then stopped the run.                                        *)
C37_Witness ==
    /\ RunStopped
    /\ last.op = "tick" /\ last.outcome = "unknown" /\ last.opCode = 255
    /\ ~last.cpu.halted

(* C38: at most one interval is live in every state and under every         *)
(* interleaving of the handlers, the interval callbacks, the renders and    *)
(* the effects, and after a pause, a reset, a load or the unmount no        *)
(* interval is live.                                                        *)
C38_SingleRunTimer ==
    /\ Cardinality(app.timers) <= 1
    /\ last.op \in {"pause", "reset", "load", "unmount"} => app.timers = {}

====
